---- MODULE Spec2Model ----
(***************************************************************************)
(* PR Workflow Engine of Farckron/ai_agents_project.                       *)
(*                                                                         *)
(* PRManager (agents/pr_manager.py) sequences the workflow steps and keeps *)
(* the registry of active and completed workflows; GitHubManager           *)
(* (agents/github_manager.py) performs the remote mutations; GitOperations *)
(* (utils/git_operations.py) validates and sanitizes branch names.         *)
(*                                                                         *)
(* Python dictionaries are records, dict.get(k, d) is Get(d, k, default),  *)
(* strings that the code inspects character by character (branch names,    *)
(* user requests) are sequences of one-character strings, None is NoneV.   *)
(* A raised exception is the value a try block is left with; the except    *)
(* clause of the handler is the ELSE branch that deals with it.            *)
(***************************************************************************)
EXTENDS Integers, Sequences, FiniteSets, TLC

(***************************************************************************)
(* Bounds of the model.                                                    *)
(***************************************************************************)
\* number of process_pr_request calls (workflow ids handed out by uuid4)
MaxWorkflows == 1

\* number of add_step calls on a PRWorkflow
MaxSteps == 2

\* number of calls made on the GitHubManager directly
MaxCalls == 2
MaxWrites == 2
MaxListed == 3

(***************************************************************************)
(* Python values.                                                          *)
(***************************************************************************)
\* None, comparable with the strings the model writes as character sequences
NoneV == <<"<None>">>

\* dict.get(key, default)
Get(d, key, default) == IF key \in DOMAIN d THEN d[key] ELSE default

\* None where a dictionary is expected
NoneDict == [is_none |-> TRUE]

\* truthiness of an optional string (None and "" are falsy)
Truthy(v) == v # NoneV /\ v # <<>>

\* the function f restricted to the keys in S
Restrict(f, S) == [k \in S |-> f[k]]

\* the elements of the list s
Range(s) == {s[i] : i \in DOMAIN s}

(***************************************************************************)
(* Characters and strings (utils/git_operations.py).                       *)
(***************************************************************************)
\* re's \s on the model alphabet
Whitespace == {" ", "\t", "\n", "\f"}

\* chr(1), a control character that re's \s does not match
SOH == "SOH"

\* chr(233), a lower-case letter outside ASCII
EAcute == "U+00E9"

\* characters with ord(c) < 32 on the model alphabet
ControlChars == {"\t", "\n", "\f", SOH}

\* str.lower on the model alphabet
LowerChar(c) == CASE c = "A" -> "a"
                  [] c = "F" -> "f"
                  [] OTHER -> c

Lower(s) == [i \in 1..Len(s) |-> LowerChar(s[i])]

\* s[:n]
Prefix(s, n) == SubSeq(s, 1, IF Len(s) < n THEN Len(s) ELSE n)

\* str.lstrip(chars)
LStrip(s, chars) ==
    LET kept == {i \in 1..Len(s) : s[i] \notin chars}
    IN  IF kept = {} THEN <<>>
        ELSE SubSeq(s, CHOOSE i \in kept : \A j \in kept : i <= j, Len(s))

\* str.rstrip(chars)
RStrip(s, chars) ==
    LET kept == {i \in 1..Len(s) : s[i] \notin chars}
    IN  IF kept = {} THEN <<>>
        ELSE SubSeq(s, 1, CHOOSE i \in kept : \A j \in kept : i >= j)

\* str.strip(chars)
Strip(s, chars) == RStrip(LStrip(s, chars), chars)

\* re.sub('[chars]', '', s)
RemoveChars(s, chars) == SelectSeq(s, LAMBDA c : c \notin chars)

\* re.sub('[chars]+', repl, s): every maximal run of chars becomes repl; the
\* first character of a run is replaced, the others are dropped
CollapseRuns(s, chars, repl) ==
    LET marked == [i \in 1..Len(s) |->
                     IF s[i] \notin chars THEN s[i]
                     ELSE IF i > 1 /\ s[i - 1] \in chars THEN ""
                     ELSE repl]
    IN  SelectSeq(marked, LAMBDA c : c # "")

\* re.sub('c c+', c, s): every run of two or more c becomes one c
CollapseRepeats(s, c) == CollapseRuns(s, {c}, c)

\* re.search of a two-character literal
Contains2(s, c1, c2) ==
    \E i \in 1..(Len(s) - 1) : s[i] = c1 /\ s[i + 1] = c2

\* longest branch name validate_branch_name accepts
MaxBranchLen == 250

\* length at which _sanitize_branch_name truncates
TruncLen == 200

\* the character class [~^:\s\[\]\\] of GitOperations.validate_branch_name
InvalidBranchChars == {"~", "^", ":", "[", "]", "\\"} \cup Whitespace

\* GitOperations.validate_branch_name, the boolean of the returned pair
validate_branch_name(name) ==
    /\ name # <<>>
    /\ Head(name) # "."
    /\ name[Len(name)] # "."
    /\ ~Contains2(name, ".", ".")
    /\ \A i \in 1..Len(name) : name[i] \notin InvalidBranchChars
    /\ ~Contains2(name, "@", "{")
    /\ Head(name) # "-"
    /\ name[Len(name)] # "-"
    /\ name[Len(name)] # "/"
    /\ ~Contains2(name, "/", "/")
    /\ Len(name) <= MaxBranchLen
    /\ \A i \in 1..Len(name) : name[i] \notin ControlChars

\* the literal "feature"
FeatureName == <<"f", "e", "a", "t", "u", "r", "e">>

\* the truncation of _sanitize_branch_name
Truncate(s) == IF Len(s) > TruncLen THEN RStrip(Prefix(s, TruncLen), {"-", "."}) ELSE s

\* GitOperations._sanitize_branch_name
sanitize_branch_name(name) ==
    LET s1 == Strip(Lower(name), Whitespace)
        s2 == CollapseRuns(s1, Whitespace, "-")
        s3 == RemoveChars(s2, {"~", "^", ":", "[", "]", "\\", "@", "{", "}"})
        s4 == CollapseRepeats(s3, ".")
        s5 == CollapseRuns(s4, {"/"}, "/")
        s6 == Strip(s5, {".", "-", "/"})
        s7 == LStrip(s6, {"-"})
        s8 == CollapseRuns(s7, {"-"}, "-")
        s9 == IF s8 = <<>> THEN FeatureName ELSE s8
    IN  Truncate(s9)

(***************************************************************************)
(* The remote host.  remote.branches maps every existing branch to its     *)
(* tree (path -> content, NoFile where the path does not exist);           *)
(* remote.pulls is the set of pull requests opened on the host.            *)
(***************************************************************************)
NoFile == "<no file>"

\* the repo_url of every call
RepoUrl == "https://github.com/o/r"

Paths == {"a.py", "b.py", "run.sh"}

\* the tree of the repository before any workflow ran
InitialTree == [p \in Paths |-> IF p = "a.py" THEN "v1" ELSE NoFile]

\* the empty dictionary of files
EmptyFiles == [p \in {} |-> NoFile]

\* the branch names of the model
main == <<"m", "a", "i", "n">>
master == <<"m", "a", "s", "t", "e", "r">>
dev == <<"d", "e", "v">>

\* an exception raised by the PyGithub client: GithubException(status)
GithubException(status) == [type |-> "GithubException", status |-> status]

\* any other exception
OtherException == [type |-> "Exception"]

\* ErrorHandler.handle_github_api_errors: the classified error response.
\* The response carries no 'status' key.  The branch on the HTTP status is
\* taken only for errors with a response.status_code attribute.
handle_github_api_errors(error) ==
    LET has_response == "response" \in DOMAIN error
        sc == IF has_response THEN error.response.status_code ELSE 0
        code == CASE has_response /\ sc = 401 -> "authentication_error"
                  [] has_response /\ sc = 403 -> "permission_denied"
                  [] has_response /\ sc = 404 -> "resource_not_found"
                  [] has_response /\ sc = 422 -> "validation_error"
                  [] has_response /\ sc = 429 -> "rate_limit_exceeded"
                  [] OTHER -> "github_api_error"
        retry == ~(has_response /\ sc \in {401, 404, 422})
    IN  [error |-> [code |-> code, message |-> code, retry_possible |-> retry]]

\* ErrorHandler.handle_authentication_errors: no 'status' key either
handle_authentication_errors(error) ==
    [error |-> [code |-> "authentication_error", message |-> "Authentication failed",
                retry_possible |-> FALSE]]

(***************************************************************************)
(* File safety (utils/git_operations.py).                                  *)
(***************************************************************************)
\* os.path.normpath(file_path).split(os.sep) on the paths of the model
PathParts(file_path) == <<file_path>>

\* os.path.splitext(file_path.lower())[1] on the paths of the model
SplitExt(file_path) == IF file_path = "run.sh" THEN ".sh" ELSE ".py"

\* part.startswith('.') on the paths of the model
StartsWithDot(part) == FALSE

\* the set dangerous_dirs of _is_safe_file_path
DangerousDirs == {".git", ".ssh", ".aws", ".docker", "node_modules/.bin"}

\* GitOperations._is_safe_file_path: no traversal, no dangerous or hidden
\* directory among the parts
is_safe_file_path(file_path) ==
    \A i \in DOMAIN PathParts(file_path) :
        LET part == PathParts(file_path)[i]
        IN  /\ part # ".."
            /\ part \notin DangerousDirs
            /\ ~(StartsWithDot(part) /\ part \notin {".github", ".vscode", ".gitignore"})

\* the set dangerous_extensions of check_file_safety
DangerousExtensions == {".exe", ".bat", ".cmd", ".com", ".scr", ".pif", ".vbs", ".js",
                        ".jar", ".app", ".deb", ".rpm", ".dmg", ".pkg", ".msi", ".ps1", ".sh"}

\* the set system_files of check_file_safety
SystemFiles == {".env", ".env.local", ".env.production", "id_rsa", "id_dsa", "id_ecdsa",
                "id_ed25519", "authorized_keys", "known_hosts", "passwd", "shadow", "sudoers"}

\* re.search of one of dangerous_patterns on the contents of the model
MatchesDangerousPattern(content) == content = "eval(1)"

\* GitOperations.check_file_safety, the boolean of the returned pair
check_file_safety(file_path, content) ==
    /\ is_safe_file_path(file_path)
    /\ SplitExt(file_path) \notin DangerousExtensions
    /\ PathParts(file_path)[Len(PathParts(file_path))] \notin SystemFiles
    /\ ~MatchesDangerousPattern(content)

(***************************************************************************)
(* GitHubManager (agents/github_manager.py).  Every operation takes the    *)
(* remote state R and returns the new remote state, the result dictionary  *)
(* and the list of mutating calls it made on the remote.  fault names the  *)
(* remote call of the operation that fails, "none" when all succeed.       *)
(***************************************************************************)
BranchFaults == {"none", "get_repo", "check_branch", "get_base", "get_default",
                 "create_ref", "crash"}

CommitFaults == {"none", "get_repo", "get_branch", "crash"}

FileFaults == {"none", "read", "write"}

\* an operation that returns result without touching the remote
NoEffect(R, result) == [remote |-> R, result |-> result, calls |-> <<>>]

BranchExists_never(R, branch_name) == FALSE

\* repo_obj.get_branch(branch_name) finds the branch (no 404)
BranchExists(R, branch_name) == branch_name \in DOMAIN R.branches

ReportedBase_requested(base_branch, used) == base_branch

\* the base_branch of the success result: the variable base_branch, which was
\* reassigned to the default branch when the fallback was taken
ReportedBase(base_branch, used) == used

\* GitHubManager.create_branch
create_branch(R, client, branch_name, base_branch, fault) ==
    IF ~client
    THEN NoEffect(R, handle_authentication_errors(OtherException))
    ELSE IF ~validate_branch_name(branch_name)
    THEN NoEffect(R, [status |-> "error", error |-> "Invalid branch name"])
    ELSE IF fault = "get_repo"
    THEN NoEffect(R, handle_github_api_errors(GithubException(500)))
    ELSE IF fault = "crash"
    THEN NoEffect(R, [status |-> "error", error |-> "Failed to create branch"])
    ELSE IF fault = "check_branch"
    THEN NoEffect(R, handle_github_api_errors(GithubException(500)))
    ELSE IF BranchExists(R, branch_name)
    THEN NoEffect(R, [status |-> "error", error |-> "Branch already exists"])
    ELSE IF fault = "get_base"
    THEN NoEffect(R, handle_github_api_errors(GithubException(500)))
    ELSE IF base_branch \notin DOMAIN R.branches
            /\ (fault = "get_default" \/ R.default_branch \notin DOMAIN R.branches)
    THEN NoEffect(R, handle_github_api_errors(GithubException(404)))
    ELSE IF fault = "create_ref"
    THEN NoEffect(R, handle_github_api_errors(GithubException(422)))
    ELSE LET base == IF base_branch \in DOMAIN R.branches
                     THEN base_branch ELSE R.default_branch
             call == [op |-> "create_git_ref", branch |-> branch_name, base |-> base]
         IN  [remote |-> [R EXCEPT !.branches = (branch_name :> R.branches[base]) @@ @],
              result |-> [status |-> "success", branch_name |-> branch_name,
                          base_branch |-> ReportedBase(base_branch, base)],
              calls |-> <<call>>]

\* the order in which files_dict.items() yields the paths
PathOrder == <<"a.py", "b.py", "run.sh">>

\* the entry of failed_files for a GithubException other than 404
FailedClassified(file_path, error) ==
    LET error_response == handle_github_api_errors(error)
    IN  [path |-> file_path, error |-> error_response.error.message,
         error_code |-> error_response.error.code]

ContentUnchanged_never(current_content, content) == FALSE

\* the test current_content == content that skips the write of a file
ContentUnchanged(current_content, content) == current_content = content

RecordFailed_drop(acc, entry) == acc

\* failed_files.append(entry): the loop goes on with the next file
RecordFailed(acc, entry) == [acc EXCEPT !.failed = Append(@, entry)]

\* one iteration of the loop over files_dict.items() in commit_multiple_files;
\* acc holds the tree of the branch, committed_files, failed_files and the calls
commit_file(acc, branch_name, file_path, content, fault) ==
    LET current == acc.tree[file_path]
    IN  IF fault = "read"
        THEN RecordFailed(acc, FailedClassified(file_path, GithubException(500)))
        ELSE IF current # NoFile
        THEN IF ContentUnchanged(current, content)
             THEN [acc EXCEPT !.committed = Append(@, [path |-> file_path, action |-> "unchanged"])]
             ELSE IF fault = "write"
             THEN RecordFailed(acc, FailedClassified(file_path, GithubException(409)))
             ELSE [acc EXCEPT !.tree[file_path] = content,
                              !.committed = Append(@, [path |-> file_path, action |-> "updated"]),
                              !.calls = Append(@, [op |-> "update_file", branch |-> branch_name,
                                                   path |-> file_path])]
        ELSE IF fault = "write"
             THEN RecordFailed(acc, [path |-> file_path, error |-> "Exception"])
             ELSE [acc EXCEPT !.tree[file_path] = content,
                              !.committed = Append(@, [path |-> file_path, action |-> "created"]),
                              !.calls = Append(@, [op |-> "create_file", branch |-> branch_name,
                                                   path |-> file_path])]

RECURSIVE commit_loop(_, _, _, _, _)
\* the loop over files_dict.items(), from the i-th path on
commit_loop(acc, branch_name, files_dict, file_faults, i) ==
    IF i > Len(PathOrder) THEN acc
    ELSE IF PathOrder[i] \notin DOMAIN files_dict
    THEN commit_loop(acc, branch_name, files_dict, file_faults, i + 1)
    ELSE commit_loop(commit_file(acc, branch_name, PathOrder[i], files_dict[PathOrder[i]],
                                 file_faults[PathOrder[i]]),
                     branch_name, files_dict, file_faults, i + 1)

\* the number of entries of the list s that satisfy the test action = a / action # a
CountAction(s, a, equal) ==
    Cardinality({i \in DOMAIN s : (s[i].action = a) = equal})

CommitStatus_success(failed_files) == "success"

\* 'success' if not failed_files else 'partial'
CommitStatus(failed_files) == IF failed_files = <<>> THEN "success" ELSE "partial"

\* GitHubManager.commit_multiple_files
commit_multiple_files(R, client, branch_name, files_dict, fault, file_faults) ==
    IF ~client
    THEN NoEffect(R, handle_authentication_errors(OtherException))
    ELSE IF DOMAIN files_dict = {}
    THEN NoEffect(R, [status |-> "error", error |-> "No files provided for commit"])
    ELSE IF fault = "get_repo"
    THEN NoEffect(R, handle_github_api_errors(GithubException(500)))
    ELSE IF fault = "crash"
    THEN NoEffect(R, [status |-> "error", error |-> "Failed to commit multiple files"])
    ELSE IF fault = "get_branch"
    THEN NoEffect(R, handle_github_api_errors(GithubException(500)))
    ELSE IF branch_name \notin DOMAIN R.branches
    THEN NoEffect(R, handle_github_api_errors(GithubException(404)))
    ELSE LET acc == commit_loop([tree |-> R.branches[branch_name], committed |-> <<>>,
                                 failed |-> <<>>, calls |-> <<>>],
                                branch_name, files_dict, file_faults, 1)
         IN  [remote |-> [R EXCEPT !.branches[branch_name] = acc.tree],
              result |-> [status |-> CommitStatus(acc.failed),
                          branch_name |-> branch_name,
                          committed_files |-> acc.committed,
                          failed_files |-> acc.failed,
                          total_files |-> Cardinality(DOMAIN files_dict),
                          successful_commits |-> CountAction(acc.committed, "unchanged", FALSE),
                          unchanged_files |-> CountAction(acc.committed, "unchanged", TRUE)],
              calls |-> acc.calls]

\* the remote call of update_file_content, delete_file that is made to fail
FileOpFaults == {"none", "get_repo", "write"}

\* GitHubManager.update_file_content
update_file_content(R, client, branch_name, file_path, content, fault) ==
    IF ~client
    THEN NoEffect(R, [status |-> "error",
                      message |-> "Updating file content requires GitHub token"])
    ELSE IF fault = "get_repo"
    THEN NoEffect(R, [status |-> "error", error |-> "Failed to update file content"])
    ELSE IF branch_name \notin DOMAIN R.branches
    THEN NoEffect(R, [status |-> "error", error |-> "Branch does not exist"])
    ELSE IF R.branches[branch_name][file_path] = NoFile
    THEN NoEffect(R, [status |-> "error", error |-> "File does not exist in branch"])
    ELSE IF R.branches[branch_name][file_path] = content
    THEN NoEffect(R, [status |-> "success", file_path |-> file_path,
                      branch_name |-> branch_name, changed |-> FALSE])
    ELSE IF fault = "write"
    THEN NoEffect(R, [status |-> "error", error |-> "Failed to update file content"])
    ELSE [remote |-> [R EXCEPT !.branches[branch_name][file_path] = content],
          result |-> [status |-> "success", file_path |-> file_path,
                      branch_name |-> branch_name, changed |-> TRUE],
          calls |-> <<[op |-> "update_file", branch |-> branch_name, path |-> file_path]>>]

\* GitHubManager.delete_file
delete_file(R, client, branch_name, file_path, fault) ==
    IF ~client
    THEN NoEffect(R, [status |-> "error", message |-> "Deleting files requires GitHub token"])
    ELSE IF fault = "get_repo"
    THEN NoEffect(R, [status |-> "error", error |-> "Failed to delete file"])
    ELSE IF branch_name \notin DOMAIN R.branches
    THEN NoEffect(R, [status |-> "error", error |-> "Branch does not exist"])
    ELSE IF R.branches[branch_name][file_path] = NoFile
    THEN NoEffect(R, [status |-> "error", error |-> "File does not exist in branch"])
    ELSE IF fault = "write"
    THEN NoEffect(R, [status |-> "error", error |-> "Failed to delete file"])
    ELSE [remote |-> [R EXCEPT !.branches[branch_name][file_path] = NoFile],
          result |-> [status |-> "success", file_path |-> file_path,
                      branch_name |-> branch_name],
          calls |-> <<[op |-> "delete_file", branch |-> branch_name, path |-> file_path]>>]

\* the limits of validate_pr_parameters on the title and the description
MaxTitleLen == 256
MaxDescriptionLen == 65000

\* GitHubManager.validate_pr_parameters: the value of is_valid
validate_pr_parameters(title, description, head_branch, base_branch) ==
    /\ Strip(title, Whitespace) # <<>>
    /\ Len(title) <= MaxTitleLen
    /\ Strip(head_branch, Whitespace) # <<>>
    /\ Strip(base_branch, Whitespace) # <<>>
    /\ head_branch # base_branch
    /\ validate_branch_name(head_branch)
    /\ validate_branch_name(base_branch)
    /\ ~(description # <<>> /\ Len(description) > MaxDescriptionLen)

\* the remote call of create_pull_request that is made to fail
PullFaults == {"none", "get_repo", "get_head", "get_base", "get_pulls", "create_pull", "crash"}

\* repo_obj.get_pulls(state='open', head=..., base=...)
get_pulls(R, head, base) ==
    {pr \in R.pulls : pr.state = "open" /\ pr.head = head /\ pr.base = base}

\* pr.html_url of the pull request with the given number
PullUrl(number) == <<RepoUrl, "/pull/", number>>

\* repo_obj.create_pull(title, body, head, base) on the host: a 422 when an
\* open pull request for head and base exists or the branches do not differ
create_pull(R, title, head, base) ==
    IF get_pulls(R, head, base) # {} \/ R.branches[head] = R.branches[base]
    THEN [ok |-> FALSE, error |-> GithubException(422)]
    ELSE LET number == Cardinality(R.pulls) + 1
         IN  [ok |-> TRUE,
              pr |-> [number |-> number, html_url |-> PullUrl(number), title |-> title,
                      head |-> head, base |-> base, state |-> "open"]]

\* the description create_pull_request generates when none is given
GeneratedDescription == <<"Automated Pull Request">>

\* GitHubManager.create_pull_request
GitHubManager_create_pull_request(R, client, branch_name, title, description, base_branch, fault) ==
    IF ~client
    THEN NoEffect(R, handle_authentication_errors(OtherException))
    ELSE IF ~validate_pr_parameters(title, description, branch_name, base_branch)
    THEN NoEffect(R, [status |-> "error", error |-> "Invalid PR parameters"])
    ELSE IF fault = "get_repo"
    THEN NoEffect(R, handle_github_api_errors(GithubException(500)))
    ELSE IF fault = "crash"
    THEN NoEffect(R, [status |-> "error", error |-> "Failed to create Pull Request"])
    ELSE IF fault = "get_head"
    THEN NoEffect(R, handle_github_api_errors(GithubException(500)))
    ELSE IF branch_name \notin DOMAIN R.branches
    THEN NoEffect(R, handle_github_api_errors(GithubException(404)))
    ELSE IF fault = "get_base"
    THEN NoEffect(R, handle_github_api_errors(GithubException(500)))
    ELSE IF base_branch \notin DOMAIN R.branches
    THEN NoEffect(R, handle_github_api_errors(GithubException(404)))
    ELSE IF fault # "get_pulls" /\ get_pulls(R, branch_name, base_branch) # {}
    THEN LET existing_pr == CHOOSE pr \in get_pulls(R, branch_name, base_branch) : TRUE
         IN  NoEffect(R, [status |-> "error", error |-> "Pull Request already exists",
                          existing_pr_url |-> existing_pr.html_url])
    ELSE LET body == IF description = <<>> THEN GeneratedDescription ELSE description
             call == [op |-> "create_pull", branch |-> branch_name, base |-> base_branch]
             out == create_pull(R, title, branch_name, base_branch)
         IN  IF fault = "create_pull"
             THEN [remote |-> R, calls |-> <<call>>,
                   result |-> handle_github_api_errors(GithubException(500))]
             ELSE IF ~out.ok
             THEN [remote |-> R, calls |-> <<call>>,
                   result |-> [status |-> "error",
                               error |-> "No changes found between branches or validation error"]]
             ELSE [remote |-> [R EXCEPT !.pulls = @ \cup {out.pr}], calls |-> <<call>>,
                   result |-> [status |-> "success", pr_number |-> out.pr.number,
                               pr_url |-> out.pr.html_url, title |-> title,
                               description |-> body, head_branch |-> branch_name,
                               base_branch |-> base_branch, state |-> out.pr.state]]

\* GitHubManager.process_task for the actions that change the remote:
\* a key absent from the task takes the default of task.get
process_task(R, client, task, fault, file_faults) ==
    CASE task.action = "create_branch" ->
            create_branch(R, client, Get(task, "branch_name", <<>>),
                          Get(task, "base_branch", main), fault)
      [] task.action = "commit_changes" ->
            commit_multiple_files(R, client, Get(task, "branch_name", main),
                                  Get(task, "files", EmptyFiles), fault, file_faults)
      [] task.action = "update_file_content" ->
            update_file_content(R, client, Get(task, "branch_name", main),
                                Get(task, "file_path", ""), Get(task, "content", ""), fault)
      [] task.action = "delete_file" ->
            delete_file(R, client, Get(task, "branch_name", main),
                        Get(task, "file_path", ""), fault)
      [] task.action = "create_pull_request" ->
            GitHubManager_create_pull_request(R, client, Get(task, "branch_name", <<>>),
                                              Get(task, "title", <<>>),
                                              Get(task, "description", <<>>),
                                              Get(task, "base_branch", main), fault)
      [] OTHER -> NoEffect(R, [status |-> "error",
                               message |-> "Failed to fetch commits from public API"])

(***************************************************************************)
(* PRManager (agents/pr_manager.py).  S is the manager's state: the        *)
(* active_workflows dictionary, the completed_workflows list and the       *)
(* number of workflow ids handed out.  now is datetime.now() of the call.  *)
(***************************************************************************)

\* the literal "automated-"
AutomatedPrefix == <<"a", "u", "t", "o", "m", "a", "t", "e", "d", "-">>

\* the literal "automated-changes-"
FallbackPrefix == AutomatedPrefix \o <<"c", "h", "a", "n", "g", "e", "s", "-">>

\* number of characters of the user request quoted in the default PR title
TitleRequestLen == 50

\* GitOperations.sanitize_user_input(user_input, "branch_name")
sanitize_user_input_branch(user_input) ==
    IF user_input = <<>> THEN <<>>
    ELSE LET kept == RemoveChars(user_input, ControlChars \ {"\n", "\r", "\t"})
         IN  sanitize_branch_name(Strip(kept, Whitespace))

\* GitOperations.generate_unique_branch_name(base_name, "") without a list of
\* existing branches: the sanitized name with the timestamp of the call
generate_unique_branch_name_ts(base_name, timestamp) ==
    sanitize_branch_name(base_name) \o <<"-">> \o timestamp

\* PRManager.generate_branch_name
generate_branch_name(request_summary, timestamp) ==
    LET sanitized_summary == sanitize_user_input_branch(request_summary)
        base_name == AutomatedPrefix \o sanitized_summary
        branch_name == generate_unique_branch_name_ts(base_name, timestamp)
    IN  IF validate_branch_name(branch_name) THEN branch_name
        ELSE FallbackPrefix \o timestamp

\* the footer create_pr_description appends, and its fallback text
DescriptionFooter == <<"*This PR was created automatically by the AI Agent System*">>

\* PRManager.create_pr_description: llm is the text call_openai returns, or
\* NoneV when the call raises
create_pr_description(user_request, llm) ==
    IF llm = NoneV
    THEN <<"# Automated Changes">> \o user_request \o DescriptionFooter
    ELSE llm \o DescriptionFooter

\* the default of options.get('pr_title', ...)
DefaultTitle(user_request) ==
    <<"Automated changes: ">> \o Prefix(user_request, TitleRequestLen) \o <<"...">>

\* GitHubManager._get_repository_summary, by the outcome of the remote reads
get_repo_summary(outcome) ==
    IF outcome = "ok"
    THEN [status |-> "success", summary |-> <<"summary">>]
    ELSE [status |-> "error", error |-> "Failed to get repository summary"]

\* PRManager._validate_repository_access
validate_repository_access(access) ==
    IF access = "no_access"
    THEN [status |-> "error", message |-> "Repository access validation failed"]
    ELSE LET repo_info == get_repo_summary(IF access = "ok" THEN "ok" ELSE "error")
         IN  IF repo_info.status = "success"
             THEN [status |-> "success", message |-> "Repository access validated successfully"]
             ELSE [status |-> "error", message |-> "GitHub Manager validation failed"]

\* PRManager._add_workflow_step
add_workflow_step(S, workflow_id, step_name, result, now) ==
    IF workflow_id \in DOMAIN S.active
    THEN [S EXCEPT !.active[workflow_id].steps =
                        Append(@, [step_name |-> step_name,
                                   status |-> Get(result, "status", "unknown"),
                                   result |-> result,
                                   timestamp |-> now]),
                   !.active[workflow_id].updated_at = now]
    ELSE S

complete_workflow_keep_active(S, workflow_id, status, message, result, now) ==
    IF workflow_id \in DOMAIN S.active
    THEN LET workflow == [completion_message |-> message, completed_at |-> now]
                         @@ [S.active[workflow_id] EXCEPT !.status = status]
         IN  [state |-> [S EXCEPT !.completed = Append(@, workflow)],
              ret |-> [status |-> status, workflow_id |-> workflow_id,
                       message |-> message, result |-> result]]
    ELSE [state |-> S,
          ret |-> [status |-> "error", message |-> "Workflow not found"]]

\* PRManager._complete_workflow: the new state and the returned dictionary
complete_workflow(S, workflow_id, status, message, result, now) ==
    IF workflow_id \in DOMAIN S.active
    THEN LET finalized == [completion_message |-> message, completed_at |-> now]
                          @@ [S.active[workflow_id] EXCEPT !.status = status]
             workflow == IF result # NoneDict
                         THEN [final_result |-> result] @@ finalized
                         ELSE finalized
         IN  [state |-> [S EXCEPT !.completed = Append(@, workflow),
                                  !.active = Restrict(@, DOMAIN @ \ {workflow_id})],
              ret |-> [status |-> status, workflow_id |-> workflow_id,
                       message |-> message, result |-> result]]
    ELSE [state |-> S,
          ret |-> [status |-> "error", message |-> "Workflow not found"]]

\* PRManager.create_pull_request: the placeholder response, no remote call
create_pull_request(repo_url, branch_name, title, description, base_branch) ==
    [status |-> "success", pr_url |-> <<repo_url, "/pull/123">>, pr_number |-> 123,
     title |-> title, description |-> description, branch_name |-> branch_name,
     base_branch |-> base_branch]

ValidationPassed_always(validation_result) == TRUE

\* the test validation_result['status'] != 'success' of process_pr_request, negated
ValidationPassed(validation_result) == validation_result.status = "success"

\* PRManager.process_pr_request: the new state and the returned dictionary.
\* access and analysis are the outcomes of the two repository reads,
\* timestamp the clock reading of generate_branch_name, llm the completion.
process_pr_request(S, user_request, options, now, access, analysis, timestamp, llm) ==
    LET workflow_id == S.next_id + 1
        workflow == [workflow_id |-> workflow_id, user_request |-> user_request,
                     repo_url |-> RepoUrl, options |-> options,
                     status |-> "processing", steps |-> <<>>,
                     created_at |-> now, updated_at |-> now]
        S0 == [S EXCEPT !.active = (workflow_id :> workflow) @@ @,
                        !.next_id = workflow_id]
        validation_result == validate_repository_access(access)
        S1 == add_workflow_step(S0, workflow_id, "validate_repository", validation_result, now)
    IN  IF ~ValidationPassed(validation_result)
        THEN complete_workflow(S1, workflow_id, "failed", validation_result.message,
                               NoneDict, now)
        ELSE
        LET supplied == Get(options, "branch_name", NoneV)
            branch_name == IF Truthy(supplied) THEN supplied
                           ELSE generate_branch_name(user_request, timestamp)
            S2 == IF Truthy(supplied) THEN S1
                  ELSE add_workflow_step(S1, workflow_id, "generate_branch_name",
                           [status |-> "success", branch_name |-> branch_name], now)
            repo_analysis == get_repo_summary(analysis)
            S3 == add_workflow_step(S2, workflow_id, "analyze_repository", repo_analysis, now)
            pr_title == Get(options, "pr_title", DefaultTitle(user_request))
            given == Get(options, "pr_description", NoneV)
            pr_description == IF Truthy(given) THEN given
                              ELSE create_pr_description(user_request, llm)
            S4 == IF Truthy(given) THEN S3
                  ELSE add_workflow_step(S3, workflow_id, "generate_pr_description",
                           [status |-> "success", description |-> pr_description], now)
            workflow_result == [status |-> "ready_for_changes",
                                workflow_id |-> workflow_id,
                                branch_name |-> branch_name,
                                pr_title |-> pr_title,
                                pr_description |-> pr_description,
                                repo_analysis |-> repo_analysis]
            S5 == add_workflow_step(S4, workflow_id, "prepare_workflow",
                      [status |-> "success", result |-> workflow_result], now)
        IN  [state |-> S5, ret |-> workflow_result]

RECURSIVE ExtractWorkflowData(_, _, _)
\* the loop of execute_pr_workflow over workflow['steps'], from the i-th step
\* on: acc holds branch_name, pr_title and pr_description
ExtractWorkflowData(steps, i, acc) ==
    IF i > Len(steps) THEN acc
    ELSE LET step == steps[i]
             result == Get(step.result, "result", NoneDict)
             next == IF step.step_name = "generate_branch_name"
                     THEN [acc EXCEPT !.branch_name = Get(step.result, "branch_name", NoneV)]
                     ELSE IF step.step_name = "prepare_workflow"
                     THEN [branch_name |-> Get(result, "branch_name", NoneV),
                           pr_title |-> Get(result, "pr_title", NoneV),
                           pr_description |-> Get(result, "pr_description", NoneV)]
                     ELSE acc
         IN  ExtractWorkflowData(steps, i + 1, next)

\* the outcome of execute_pr_workflow: manager state, remote state, returned
\* dictionary and the steps run with their results and mutating remote calls
Outcome(fin, R, trace) ==
    [state |-> fin.state, remote |-> R, ret |-> fin.ret, trace |-> trace]

\* one step run by execute_pr_workflow
Ran(step_name, result, calls) == [step |-> step_name, result |-> result, calls |-> calls]

\* the steps of execute_pr_workflow, in the order of the code
RemoteSteps == <<"create_branch", "commit_changes", "create_pull_request">>

\* the dictionary returned for a workflow id that is not active
NotFound == [status |-> "error", message |-> "Workflow not found"]

LookupActive_completed(S, workflow_id) ==
    IF workflow_id \in DOMAIN S.active THEN S.active[workflow_id]
    ELSE IF \E i \in DOMAIN S.completed : S.completed[i].workflow_id = workflow_id
    THEN S.completed[CHOOSE i \in DOMAIN S.completed :
                         S.completed[i].workflow_id = workflow_id]
    ELSE NoneDict

\* the lookup 'workflow_id in self.active_workflows' of execute_pr_workflow:
\* the workflow, NoneDict when it is not active
LookupActive(S, workflow_id) ==
    IF workflow_id \in DOMAIN S.active THEN S.active[workflow_id] ELSE NoneDict

BranchCreated_any_status(branch_result) == branch_result.status \in {"success", "error"}

\* the test branch_result['status'] != 'success' of execute_pr_workflow, negated
BranchCreated(branch_result) == branch_result.status = "success"

CommitSucceeded_or_partial(commit_result) == commit_result.status \in {"success", "partial"}

\* the test commit_result['status'] != 'success' of execute_pr_workflow, negated
CommitSucceeded(commit_result) == commit_result.status = "success"

HandleExecuteError_return(S, workflow_id, now) ==
    [state |-> S, ret |-> [status |-> "error", error |-> "Error executing PR workflow"]]

\* the except clause of execute_pr_workflow
HandleExecuteError(S, workflow_id, now) ==
    complete_workflow(S, workflow_id, "failed", "Error executing PR workflow", NoneDict, now)

\* PRManager.execute_pr_workflow.  branch_fault, commit_fault and file_faults
\* say which remote call of each step fails.  A result dictionary without a
\* 'status' key raises KeyError where the code reads result['status'].
execute_pr_workflow(S, R, client, workflow_id, changes, now, branch_fault, commit_fault, file_faults) ==
    LET workflow == LookupActive(S, workflow_id)
    IN
    IF workflow = NoneDict
    THEN [state |-> S, remote |-> R, trace |-> <<>>, ret |-> NotFound]
    ELSE
    LET data == ExtractWorkflowData(workflow.steps, 1,
                    [branch_name |-> NoneV, pr_title |-> NoneV, pr_description |-> NoneV])
    IN  IF ~Truthy(data.branch_name)
        THEN Outcome(complete_workflow(S, workflow_id, "failed",
                         "Branch name not found in workflow", NoneDict, now), R, <<>>)
        ELSE
        LET br == process_task(R, client,
                      [action |-> "create_branch", repo_url |-> workflow.repo_url,
                       branch_name |-> data.branch_name],
                      branch_fault, file_faults)
            S1 == add_workflow_step(S, workflow_id, "create_branch", br.result, now)
            t1 == <<Ran("create_branch", br.result, br.calls)>>
        IN  IF "status" \notin DOMAIN br.result
            THEN Outcome(HandleExecuteError(S1, workflow_id, now), br.remote, t1)
            ELSE IF ~BranchCreated(br.result)
            THEN Outcome(complete_workflow(S1, workflow_id, "failed",
                             "Failed to create branch", NoneDict, now), br.remote, t1)
            ELSE
            LET cm == process_task(br.remote, client,
                          [action |-> "commit_changes", repo_url |-> workflow.repo_url,
                           files |-> Get(changes, "files", EmptyFiles),
                           message |-> "Automated changes"],
                          commit_fault, file_faults)
                S2 == add_workflow_step(S1, workflow_id, "commit_changes", cm.result, now)
                t2 == Append(t1, Ran("commit_changes", cm.result, cm.calls))
            IN  IF "status" \notin DOMAIN cm.result
                THEN Outcome(HandleExecuteError(S2, workflow_id, now), cm.remote, t2)
                ELSE IF ~CommitSucceeded(cm.result)
                THEN Outcome(complete_workflow(S2, workflow_id, "failed",
                                 "Failed to commit changes", NoneDict, now), cm.remote, t2)
                ELSE
                LET pr_result == create_pull_request(workflow.repo_url, data.branch_name,
                                     data.pr_title, data.pr_description,
                                     Get(workflow.options, "base_branch", main))
                    S3 == add_workflow_step(S2, workflow_id, "create_pull_request",
                                            pr_result, now)
                    t3 == Append(t2, Ran("create_pull_request", pr_result, <<>>))
                IN  IF pr_result.status = "success"
                    THEN Outcome(complete_workflow(S3, workflow_id, "completed",
                                     "PR created successfully", pr_result, now),
                                 cm.remote, t3)
                    ELSE Outcome(complete_workflow(S3, workflow_id, "failed",
                                     "Failed to create PR", NoneDict, now), cm.remote, t3)

(***************************************************************************)
(* The inputs of the calls.                                                *)
(***************************************************************************)
\* branch names a caller supplies: a valid one and one with a space
feat == <<"f", "t">>
bad == <<"x", " ", "y">>

UserRequests == {<<"F", " ", "x">>}

\* the options dictionaries callers pass: nothing supplied; the dictionary the
\* HTTP front end builds (every key present, None where nothing was supplied);
\* everything supplied; a supplied branch name with a space and an empty title
OptionSets ==
    { [k \in {} |-> NoneV],
      [branch_name |-> NoneV, pr_title |-> NoneV, pr_description |-> NoneV,
       base_branch |-> main],
      [branch_name |-> feat, pr_title |-> <<"T">>, pr_description |-> <<"D">>,
       base_branch |-> dev],
      [branch_name |-> bad, pr_title |-> <<>>, pr_description |-> <<"D">>] }

RECURSIVE Digits(_)
\* the decimal digits of n
Digits(n) ==
    LET d == <<"0", "1", "2", "3", "4", "5", "6", "7", "8", "9">>[(n % 10) + 1]
    IN  IF n < 10 THEN <<d>> ELSE Digits(n \div 10) \o <<d>>

\* strftime("%Y%m%d-%H%M%S") of the clock reading now
Timestamp(now) == Digits(now)

\* completions of the language model, NoneV when the call raises
LlmOutputs == {NoneV, <<>>}

AccessOutcomes == {"ok", "no_access", "summary_error"}

AnalysisOutcomes == {"ok", "error"}

\* the changes dictionaries: without a 'files' key, or with a files dictionary
\* (nothing to commit, an unchanged file, an updated file, an update and a
\* new file, a shell script, a file that calls eval)
FileMaps == {EmptyFiles, ("a.py" :> "v1"), ("a.py" :> "v2"),
             ("a.py" :> "v2" @@ "b.py" :> "v1"),
             ("run.sh" :> "v1"), ("b.py" :> "eval(1)")}

ChangeInputs == {[status |-> "success"]} \cup {[files |-> m] : m \in FileMaps}

NoFileFaults == [p \in Paths |-> "none"]

\* which remote call of an execute_pr_workflow fails: a fault of a step
\* matters only when the steps before it succeeded; at most one file of a
\* commit fails
FaultScenarios ==
    {[branch |-> f, commit |-> "none", files |-> NoFileFaults] : f \in BranchFaults}
    \cup {[branch |-> "none", commit |-> f, files |-> NoFileFaults] : f \in CommitFaults}
    \cup {[branch |-> "none", commit |-> "none", files |-> [NoFileFaults EXCEPT ![p] = f]] :
               p \in Paths, f \in FileFaults}

(***************************************************************************)
(* State.                                                                  *)
(***************************************************************************)
VARIABLES
    active_workflows,     \* PRManager.active_workflows: workflow id -> workflow
    completed_workflows,  \* PRManager.completed_workflows: list of workflows
    next_id,              \* number of workflow ids handed out
    clock,                \* the last reading of datetime.now()
    github_client,        \* GitHubManager.github_client is set (a token was given)
    remote,               \* the repository on the remote host
    executed,             \* history: per workflow, the steps run by execute_pr_workflow
    last_result,          \* the last call and what it returned
    pr_workflow,          \* a PRWorkflow object (models/pr_workflow.py)
    pr_workflow_call,     \* the last method called on the PRWorkflow object
    github_call,          \* the last task given to GitHubManager.process_task, its result
    github_calls,         \* number of tasks given to GitHubManager.process_task
    pc,                   \* per thread: the statement of execute_pr_workflow it is at
    frame,                \* per thread: the local variables of its call
    observed,             \* what the last status query returned
    commit_run,           \* one commit_multiple_files call run statement by statement
    retry,                \* one ErrorHandler.retry_with_backoff call
    util_call             \* one call of a function of utils/ or of a name generator

\* the state of PRManager, GitHubManager and the remote host
manager_vars == <<active_workflows, completed_workflows, next_id, clock, github_client,
                  remote, executed, last_result>>

\* the state of the PRWorkflow object
pr_workflow_vars == <<pr_workflow, pr_workflow_call>>

\* the caller of GitHubManager.process_task
github_vars == <<github_call, github_calls>>

\* the threads that call execute_pr_workflow, and the status queries
thread_vars == <<pc, frame, observed>>

\* the threads that call into one PRManager
Threads == {"t1", "t2"}

\* the local variables of a thread that is not in a call
IdleFrame == [workflow_id |-> 0]

\* no thread is in a call, no query was made
ThreadsIdle ==
    /\ pc = [t \in Threads |-> "idle"]
    /\ frame = [t \in Threads |-> IdleFrame]
    /\ observed = [query |-> "none"]

\* a commit_multiple_files call next to another writer, a retry_with_backoff call,
\* a call of a function of utils/
call_vars == <<commit_run, retry, util_call>>

\* no such call is under way
CallsIdle ==
    /\ commit_run = [pc |-> "idle"]
    /\ retry = [pc |-> "idle"]
    /\ util_call = [pc |-> "idle"]

\* what the PRManager calls leave alone
other_vars == <<pr_workflow_vars, github_vars, thread_vars, call_vars>>

vars == <<manager_vars, other_vars>>

\* PRWorkflow(request_id): no steps, completion_status SUCCESS, completed_at None
PRWorkflowNew ==
    [steps |-> <<>>, completion_status |-> "success", completed_at |-> FALSE]

\* the workflow ids callers pass
WorkflowIds == 1..MaxWorkflows

\* the state of the PRManager object
Manager == [active |-> active_workflows, completed |-> completed_workflows,
            next_id |-> next_id]

\* PRManager.__init__ and GitHubManager.__init__, and a repository with its
\* default branch
Init ==
    /\ active_workflows = [w \in {} |-> NoneDict]
    /\ completed_workflows = <<>>
    /\ next_id = 0
    /\ clock = 0
    /\ github_client \in BOOLEAN
    /\ \E d \in {main, master} :
          remote = [default_branch |-> d, branches |-> (d :> InitialTree), pulls |-> {}]
    /\ executed = [w \in WorkflowIds |-> <<>>]
    /\ last_result = [call |-> "init"]
    /\ pr_workflow = PRWorkflowNew
    /\ pr_workflow_call = "init"
    /\ github_call = [action |-> "init"]
    /\ github_calls = 0
    /\ ThreadsIdle
    /\ CallsIdle

\* a call of process_pr_request (StartWorkflow)
StartWorkflow ==
    /\ next_id < MaxWorkflows
    /\ \E user_request \in UserRequests, options \in OptionSets,
          access \in AccessOutcomes, analysis \in AnalysisOutcomes,
          llm \in LlmOutputs :
          \E now \in {clock + 1} :
          \E out \in {process_pr_request(Manager, user_request, options, now,
                                         access, analysis, Timestamp(now), llm)} :
              /\ active_workflows' = out.state.active
              /\ completed_workflows' = out.state.completed
              /\ next_id' = out.state.next_id
              /\ clock' = now
              /\ last_result' = [call |-> "process_pr_request",
                                 workflow_id |-> out.state.next_id, ret |-> out.ret]
    /\ UNCHANGED <<github_client, remote, executed, other_vars>>

\* a call of execute_pr_workflow (ExecuteWorkflow) for an active workflow
ExecuteWorkflow ==
    \E workflow_id \in DOMAIN active_workflows, changes \in ChangeInputs,
       faults \in FaultScenarios :
        \E now \in {clock + 1} :
        \E out \in {execute_pr_workflow(Manager, remote, github_client, workflow_id, changes,
                                        now, faults.branch, faults.commit, faults.files)} :
            /\ active_workflows' = out.state.active
            /\ completed_workflows' = out.state.completed
            /\ next_id' = out.state.next_id
            /\ remote' = out.remote
            /\ clock' = now
            /\ executed' = [executed EXCEPT ![workflow_id] = @ \o out.trace]
            /\ last_result' = [call |-> "execute_pr_workflow",
                               workflow_id |-> workflow_id, ret |-> out.ret]
            /\ UNCHANGED <<github_client, other_vars>>

\* a call of execute_pr_workflow for a workflow id that is not active: the
\* changes are not looked at and no remote call is made, whatever would fail
ExecuteUnknown ==
    \E workflow_id \in WorkflowIds \ DOMAIN active_workflows :
        \E out \in {execute_pr_workflow(Manager, remote, github_client, workflow_id,
                                        [files |-> EmptyFiles], clock + 1,
                                        "none", "none", NoFileFaults)} :
            /\ active_workflows' = out.state.active
            /\ completed_workflows' = out.state.completed
            /\ next_id' = out.state.next_id
            /\ remote' = out.remote
            /\ executed' = [executed EXCEPT ![workflow_id] = @ \o out.trace]
            /\ last_result' = [call |-> "execute_pr_workflow",
                               workflow_id |-> workflow_id, ret |-> out.ret]
            /\ UNCHANGED <<github_client, clock, other_vars>>

Next == StartWorkflow \/ ExecuteWorkflow \/ ExecuteUnknown

Spec == Init /\ [][Next]_vars

(***************************************************************************)
(* PRWorkflow (models/pr_workflow.py): the workflow object with its steps. *)
(* completed_at is modelled by whether it is set.                          *)
(***************************************************************************)
\* the step names callers use
StepNames == {"create_branch", "commit_changes"}

\* WorkflowStep(step_name): status PENDING
WorkflowStep(step_name) == [step_name |-> step_name, status |-> "pending"]

\* PRWorkflow.add_step
add_step(W, step_name) == [W EXCEPT !.steps = Append(@, WorkflowStep(step_name))]

\* PRWorkflow.get_step: the position of the first step of that name, 0 for None
get_step(W, step_name) ==
    IF \E i \in DOMAIN W.steps : W.steps[i].step_name = step_name
    THEN CHOOSE i \in DOMAIN W.steps :
             /\ W.steps[i].step_name = step_name
             /\ \A j \in 1..(i - 1) : W.steps[j].step_name # step_name
    ELSE 0

\* WorkflowStep.mark_completed
mark_completed(step) == [step EXCEPT !.status = "completed"]

\* WorkflowStep.mark_failed
mark_failed(step) == [step EXCEPT !.status = "failed"]

\* PRWorkflow.complete_step
complete_step(W, step_name) ==
    IF get_step(W, step_name) # 0
    THEN [W EXCEPT !.steps[get_step(W, step_name)] = mark_completed(@)]
    ELSE W

\* PRWorkflow.fail_step
fail_step(W, step_name) ==
    IF get_step(W, step_name) # 0
    THEN [W EXCEPT !.steps[get_step(W, step_name)] = mark_failed(@)]
    ELSE W

\* PRWorkflow.get_failed_steps, as the positions of the failed steps
get_failed_steps(W) == {i \in DOMAIN W.steps : W.steps[i].status = "failed"}

\* PRWorkflow.complete_workflow
PRWorkflow_complete_workflow(W) ==
    LET failed_steps == get_failed_steps(W)
    IN  [W EXCEPT !.completed_at = TRUE,
                  !.completion_status =
                      IF failed_steps = {} THEN "success"
                      ELSE IF Cardinality(failed_steps) < Len(W.steps) THEN "partial"
                      ELSE "failed"]

\* PRWorkflow.__init__
PRWorkflowInit ==
    /\ pr_workflow = PRWorkflowNew
    /\ pr_workflow_call = "init"
    /\ active_workflows = [w \in {} |-> NoneDict]
    /\ completed_workflows = <<>>
    /\ next_id = 0
    /\ clock = 0
    /\ github_client = FALSE
    /\ remote = [default_branch |-> main, branches |-> (main :> InitialTree), pulls |-> {}]
    /\ executed = [w \in WorkflowIds |-> <<>>]
    /\ last_result = [call |-> "init"]
    /\ github_call = [action |-> "init"]
    /\ github_calls = 0
    /\ ThreadsIdle
    /\ CallsIdle

\* a call of add_step
AddStep ==
    /\ Len(pr_workflow.steps) < MaxSteps
    /\ \E step_name \in StepNames : pr_workflow' = add_step(pr_workflow, step_name)
    /\ pr_workflow_call' = "add_step"
    /\ UNCHANGED <<manager_vars, github_vars, thread_vars, call_vars>>

\* a call of complete_step
CompleteStep ==
    /\ \E step_name \in StepNames : pr_workflow' = complete_step(pr_workflow, step_name)
    /\ pr_workflow_call' = "complete_step"
    /\ UNCHANGED <<manager_vars, github_vars, thread_vars, call_vars>>

\* a call of fail_step
FailStep ==
    /\ \E step_name \in StepNames : pr_workflow' = fail_step(pr_workflow, step_name)
    /\ pr_workflow_call' = "fail_step"
    /\ UNCHANGED <<manager_vars, github_vars, thread_vars, call_vars>>

\* a call of complete_workflow
CompleteWorkflow ==
    /\ pr_workflow' = PRWorkflow_complete_workflow(pr_workflow)
    /\ pr_workflow_call' = "complete_workflow"
    /\ UNCHANGED <<manager_vars, github_vars, thread_vars, call_vars>>

PRWorkflowNext == AddStep \/ CompleteStep \/ FailStep \/ CompleteWorkflow

PRWorkflowSpec == PRWorkflowInit /\ [][PRWorkflowNext]_vars

(***************************************************************************)
(* GitHubManager called directly through process_task, on a repository     *)
(* that has its default branch and possibly a dev branch.                  *)
(***************************************************************************)
\* the tree of the dev branch
DevTree == [p \in Paths |-> IF p = "a.py" THEN "v2" ELSE NoFile]

\* the branch names of create_branch tasks
NewBranchNames == {feat, dev, bad}

\* the base_branch of create_branch tasks: absent, or a name
BaseBranchInputs == {NoneV, main, dev}

\* the branch_name of commit_changes tasks: absent, or a name
CommitBranchInputs == {NoneV, dev}

\* the files of commit_changes tasks: none, an update, an update and a new file
DirectFileMaps == {EmptyFiles, ("a.py" :> "v2"), ("a.py" :> "v1" @@ "b.py" :> "v1")}

\* the create_branch task, a key being left out when its value is NoneV
BranchTask(branch_name, base_branch) ==
    IF base_branch = NoneV
    THEN [action |-> "create_branch", repo_url |-> RepoUrl, branch_name |-> branch_name]
    ELSE [action |-> "create_branch", repo_url |-> RepoUrl, branch_name |-> branch_name,
          base_branch |-> base_branch]

\* the commit_changes task, a key being left out when its value is NoneV
CommitTask(branch_name, files) ==
    IF branch_name = NoneV
    THEN [action |-> "commit_changes", repo_url |-> RepoUrl, files |-> files]
    ELSE [action |-> "commit_changes", repo_url |-> RepoUrl, files |-> files,
          branch_name |-> branch_name]

\* GitHubManager.__init__ and the repository
GitHubInit ==
    /\ github_client \in BOOLEAN
    /\ \E d \in {main, master}, has_dev \in BOOLEAN :
          remote = [default_branch |-> d,
                    branches |-> IF has_dev THEN (d :> InitialTree) @@ (dev :> DevTree)
                                 ELSE (d :> InitialTree),
                    pulls |-> {}]
    /\ github_call = [action |-> "init"]
    /\ github_calls = 0
    /\ active_workflows = [w \in {} |-> NoneDict]
    /\ completed_workflows = <<>>
    /\ next_id = 0
    /\ clock = 0
    /\ executed = [w \in WorkflowIds |-> <<>>]
    /\ last_result = [call |-> "init"]
    /\ pr_workflow = PRWorkflowNew
    /\ pr_workflow_call = "init"
    /\ ThreadsIdle
    /\ CallsIdle

\* process_task({'action': 'create_branch', ...})
CreateBranch ==
    /\ github_calls < MaxCalls
    /\ \E branch_name \in NewBranchNames, base_branch \in BaseBranchInputs,
          fault \in BranchFaults :
          \E task \in {BranchTask(branch_name, base_branch)} :
          \E out \in {process_task(remote, github_client, task, fault, NoFileFaults)} :
              /\ remote' = out.remote
              /\ github_call' = [action |-> "create_branch", task |-> task, fault |-> fault,
                                 result |-> out.result, calls |-> out.calls]
    /\ github_calls' = github_calls + 1
    /\ UNCHANGED <<active_workflows, completed_workflows, next_id, clock, github_client,
                   executed, last_result, pr_workflow_vars, thread_vars, call_vars>>

\* process_task({'action': 'commit_changes', ...})
CommitChanges ==
    /\ github_calls < MaxCalls
    /\ \E branch_name \in CommitBranchInputs, files \in DirectFileMaps,
          faults \in FaultScenarios :
          \E task \in {CommitTask(branch_name, files)} :
          \E out \in {process_task(remote, github_client, task, faults.commit, faults.files)} :
              /\ faults.branch = "none"
              /\ remote' = out.remote
              /\ github_call' = [action |-> "commit_changes", task |-> task,
                                 fault |-> faults.commit, file_faults |-> faults.files,
                                 result |-> out.result, calls |-> out.calls]
    /\ github_calls' = github_calls + 1
    /\ UNCHANGED <<active_workflows, completed_workflows, next_id, clock, github_client,
                   executed, last_result, pr_workflow_vars, thread_vars, call_vars>>

\* the file_path and content of update_file_content and delete_file tasks
FileOpPaths == {"a.py", "b.py"}
FileOpContents == {"v1", "v2"}

\* process_task({'action': 'update_file_content', ...})
UpdateFileContent ==
    /\ github_calls < MaxCalls
    /\ \E branch_name \in CommitBranchInputs, file_path \in FileOpPaths,
          content \in FileOpContents, fault \in FileOpFaults :
          \E task \in {[file_path |-> file_path, content |-> content]
                        @@ CommitTask(branch_name, EmptyFiles)} :
          \E out \in {process_task(remote, github_client,
                                    [task EXCEPT !.action = "update_file_content"],
                                    fault, NoFileFaults)} :
              /\ remote' = out.remote
              /\ github_call' = [action |-> "update_file_content", task |-> task,
                                 fault |-> fault, result |-> out.result, calls |-> out.calls]
    /\ github_calls' = github_calls + 1
    /\ UNCHANGED <<active_workflows, completed_workflows, next_id, clock, github_client,
                   executed, last_result, pr_workflow_vars, thread_vars, call_vars>>

\* process_task({'action': 'delete_file', ...})
DeleteFile ==
    /\ github_calls < MaxCalls
    /\ \E branch_name \in CommitBranchInputs, file_path \in FileOpPaths,
          fault \in FileOpFaults :
          \E task \in {[file_path |-> file_path] @@ CommitTask(branch_name, EmptyFiles)} :
          \E out \in {process_task(remote, github_client,
                                    [task EXCEPT !.action = "delete_file"],
                                    fault, NoFileFaults)} :
              /\ remote' = out.remote
              /\ github_call' = [action |-> "delete_file", task |-> task,
                                 fault |-> fault, result |-> out.result, calls |-> out.calls]
    /\ github_calls' = github_calls + 1
    /\ UNCHANGED <<active_workflows, completed_workflows, next_id, clock, github_client,
                   executed, last_result, pr_workflow_vars, thread_vars, call_vars>>

\* the head branch, the title and the base of create_pull_request tasks
PullHeadInputs == {dev, feat}
PullTitles == {<<>>, <<"T">>}
PullBaseInputs == {NoneV, dev}

\* the create_pull_request task, a key being left out when its value is NoneV
PullTask(branch_name, title, base_branch) ==
    IF base_branch = NoneV
    THEN [action |-> "create_pull_request", repo_url |-> RepoUrl,
          branch_name |-> branch_name, title |-> title]
    ELSE [action |-> "create_pull_request", repo_url |-> RepoUrl,
          branch_name |-> branch_name, title |-> title, base_branch |-> base_branch]

\* process_task({'action': 'create_pull_request', ...})
CreatePullRequest ==
    /\ github_calls < MaxCalls
    /\ \E branch_name \in PullHeadInputs, title \in PullTitles,
          base_branch \in PullBaseInputs, fault \in PullFaults :
          \E task \in {PullTask(branch_name, title, base_branch)} :
          \E out \in {process_task(remote, github_client, task, fault, NoFileFaults)} :
              /\ remote' = out.remote
              /\ github_call' = [action |-> "create_pull_request", task |-> task,
                                 fault |-> fault, result |-> out.result, calls |-> out.calls]
    /\ github_calls' = github_calls + 1
    /\ UNCHANGED <<active_workflows, completed_workflows, next_id, clock, github_client,
                   executed, last_result, pr_workflow_vars, thread_vars, call_vars>>

GitHubNext ==
    CreateBranch \/ CommitChanges \/ UpdateFileContent \/ DeleteFile \/ CreatePullRequest

GitHubSpec == GitHubInit /\ [][GitHubNext]_vars

(***************************************************************************)
(* Threads calling into one PRManager (main.py starts threads; PRManager   *)
(* takes no lock).  A thread runs execute_pr_workflow statement by         *)
(* statement; the status queries read the registry between any two         *)
(* statements.  A workflow dictionary is one object that active_workflows  *)
(* and completed_workflows both refer to: a write to it shows in both.     *)
(***************************************************************************)
\* the workflow object with that id, read through whichever collection has it
ObjectOf(workflow_id) ==
    IF workflow_id \in DOMAIN active_workflows THEN active_workflows[workflow_id]
    ELSE completed_workflows[CHOOSE i \in DOMAIN completed_workflows :
                                 completed_workflows[i].workflow_id = workflow_id]

\* active_workflows after the keys of fields were assigned in the workflow object
ActiveAfterWrite(workflow_id, fields) ==
    [k \in DOMAIN active_workflows |->
        IF k = workflow_id THEN fields @@ active_workflows[k] ELSE active_workflows[k]]

\* completed_workflows after the keys of fields were assigned in the workflow object
CompletedAfterWrite(workflow_id, fields) ==
    [i \in DOMAIN completed_workflows |->
        IF completed_workflows[i].workflow_id = workflow_id
        THEN fields @@ completed_workflows[i] ELSE completed_workflows[i]]

\* the thread goes to statement label with the local variables locals
Goto(t, label, locals) ==
    /\ pc' = [pc EXCEPT ![t] = label]
    /\ frame' = [frame EXCEPT ![t] = locals]

\* the thread enters _complete_workflow(workflow_id, status, message, result)
EnterComplete(t, status, message, result, in_handler) ==
    Goto(t, "cw_check",
         [workflow_id |-> frame[t].workflow_id, changes |-> frame[t].changes,
          cw |-> [status |-> status, message |-> message, result |-> result],
          in_handler |-> in_handler])

\* the files every thread commits
ThreadChanges == [files |-> ("a.py" :> "v2")]

\* process_pr_request, as one step: the workflow id is known to no thread
\* before the call returns
ThreadStart ==
    /\ next_id < MaxWorkflows
    /\ \E out \in {process_pr_request(Manager, <<"F", " ", "x">>, [k \in {} |-> NoneV],
                                        clock + 1, "ok", "ok", Timestamp(clock + 1), NoneV)} :
          /\ active_workflows' = out.state.active
          /\ completed_workflows' = out.state.completed
          /\ next_id' = out.state.next_id
    /\ clock' = clock + 1
    /\ UNCHANGED <<github_client, remote, executed, last_result, pr_workflow_vars,
                   github_vars, thread_vars, call_vars>>

\* a thread calls execute_pr_workflow(workflow_id, changes)
ThreadCall(t) ==
    /\ pc[t] = "idle"
    /\ \E workflow_id \in 1..next_id :
          Goto(t, "lookup", [workflow_id |-> workflow_id, changes |-> ThreadChanges])
    /\ UNCHANGED <<manager_vars, pr_workflow_vars, github_vars, observed, call_vars>>

\* if workflow_id not in self.active_workflows: return ...; the try block
\* begins, with the loop over workflow['steps'] and the test of branch_name
Lookup(t) ==
    /\ pc[t] = "lookup"
    /\ LET workflow == LookupActive(Manager, frame[t].workflow_id)
           data == ExtractWorkflowData(workflow.steps, 1,
                       [branch_name |-> NoneV, pr_title |-> NoneV, pr_description |-> NoneV])
       IN  IF workflow = NoneDict
           THEN Goto(t, "done", [workflow_id |-> frame[t].workflow_id, ret |-> NotFound])
           ELSE IF ~Truthy(data.branch_name)
           THEN EnterComplete(t, "failed", "Branch name not found in workflow", NoneDict, FALSE)
           ELSE Goto(t, "run", [workflow_id |-> frame[t].workflow_id,
                                changes |-> frame[t].changes,
                                repo_url |-> workflow.repo_url,
                                options |-> workflow.options,
                                data |-> data, stage |-> 1])
    /\ UNCHANGED <<manager_vars, pr_workflow_vars, github_vars, observed, call_vars>>

\* the call of the stage: process_task for create_branch and commit_changes,
\* create_pull_request for the third
RunStage(t) ==
    /\ pc[t] = "run"
    /\ LET f == frame[t]
           task == IF f.stage = 1
                   THEN [action |-> "create_branch", repo_url |-> f.repo_url,
                         branch_name |-> f.data.branch_name]
                   ELSE [action |-> "commit_changes", repo_url |-> f.repo_url,
                         files |-> Get(f.changes, "files", EmptyFiles),
                         message |-> "Automated changes"]
           out == IF f.stage = 3
                  THEN NoEffect(remote, create_pull_request(f.repo_url, f.data.branch_name,
                                    f.data.pr_title, f.data.pr_description,
                                    Get(f.options, "base_branch", main)))
                  ELSE process_task(remote, github_client, task, "none", NoFileFaults)
       IN  /\ remote' = out.remote
           /\ executed' = [executed EXCEPT ![f.workflow_id] =
                               Append(@, Ran(RemoteSteps[f.stage], out.result, out.calls))]
           /\ Goto(t, "record", [result |-> out.result] @@ f)
    /\ UNCHANGED <<active_workflows, completed_workflows, next_id, clock, github_client,
                   last_result, pr_workflow_vars, github_vars, observed, call_vars>>

\* self._add_workflow_step(workflow_id, <stage>, result)
RecordStep(t) ==
    /\ pc[t] = "record"
    /\ LET f == frame[t]
           step == [step_name |-> RemoteSteps[f.stage],
                    status |-> Get(f.result, "status", "unknown"),
                    result |-> f.result, timestamp |-> clock]
       IN  IF f.workflow_id \in DOMAIN active_workflows
           THEN LET appended == [steps |-> Append(active_workflows[f.workflow_id].steps, step),
                                 updated_at |-> clock]
                IN  /\ active_workflows' = ActiveAfterWrite(f.workflow_id, appended)
                    /\ completed_workflows' = CompletedAfterWrite(f.workflow_id, appended)
           ELSE UNCHANGED <<active_workflows, completed_workflows>>
    /\ Goto(t, "test", frame[t])
    /\ UNCHANGED <<next_id, clock, github_client, remote, executed, last_result,
                   pr_workflow_vars, github_vars, observed, call_vars>>

\* the test of result['status'] after the stage: a missing key raises KeyError,
\* which the except clause of execute_pr_workflow catches
TestStage(t) ==
    /\ pc[t] = "test"
    /\ LET f == frame[t]
       IN  IF "status" \notin DOMAIN f.result
           THEN EnterComplete(t, "failed", "Error executing PR workflow", NoneDict, TRUE)
           ELSE IF f.stage = 1 /\ ~BranchCreated(f.result)
           THEN EnterComplete(t, "failed", "Failed to create branch", NoneDict, FALSE)
           ELSE IF f.stage = 2 /\ ~CommitSucceeded(f.result)
           THEN EnterComplete(t, "failed", "Failed to commit changes", NoneDict, FALSE)
           ELSE IF f.stage = 3 /\ f.result.status = "success"
           THEN EnterComplete(t, "completed", "PR created successfully", f.result, FALSE)
           ELSE IF f.stage = 3
           THEN EnterComplete(t, "failed", "Failed to create PR", NoneDict, FALSE)
           ELSE Goto(t, "run", [f EXCEPT !.stage = @ + 1])
    /\ UNCHANGED <<manager_vars, pr_workflow_vars, github_vars, observed, call_vars>>

\* _complete_workflow: if workflow_id in self.active_workflows:
\*     workflow = self.active_workflows[workflow_id]
CwCheck(t) ==
    /\ pc[t] = "cw_check"
    /\ IF frame[t].workflow_id \in DOMAIN active_workflows
       THEN Goto(t, "cw_status", frame[t])
       ELSE Goto(t, "done", [workflow_id |-> frame[t].workflow_id,
                             ret |-> [status |-> "error", message |-> "Workflow not found"]])
    /\ UNCHANGED <<manager_vars, pr_workflow_vars, github_vars, observed, call_vars>>

\* _complete_workflow: workflow['status'] = status
CwStatus(t) ==
    /\ pc[t] = "cw_status"
    /\ LET assigned == [status |-> frame[t].cw.status]
       IN  /\ active_workflows' = ActiveAfterWrite(frame[t].workflow_id, assigned)
           /\ completed_workflows' = CompletedAfterWrite(frame[t].workflow_id, assigned)
    /\ Goto(t, "cw_fields", frame[t])
    /\ UNCHANGED <<next_id, clock, github_client, remote, executed, last_result,
                   pr_workflow_vars, github_vars, observed, call_vars>>

\* _complete_workflow: completion_message, completed_at and final_result
CwFields(t) ==
    /\ pc[t] = "cw_fields"
    /\ LET cw == frame[t].cw
           fields == IF cw.result # NoneDict
                     THEN [completion_message |-> cw.message, completed_at |-> clock,
                           final_result |-> cw.result]
                     ELSE [completion_message |-> cw.message, completed_at |-> clock]
       IN  /\ active_workflows' = ActiveAfterWrite(frame[t].workflow_id, fields)
           /\ completed_workflows' = CompletedAfterWrite(frame[t].workflow_id, fields)
    /\ Goto(t, "cw_append", frame[t])
    /\ UNCHANGED <<next_id, clock, github_client, remote, executed, last_result,
                   pr_workflow_vars, github_vars, observed, call_vars>>

\* _complete_workflow: self.completed_workflows.append(workflow)
CwAppend(t) ==
    /\ pc[t] = "cw_append"
    /\ completed_workflows' = Append(completed_workflows, ObjectOf(frame[t].workflow_id))
    /\ Goto(t, "cw_delete", frame[t])
    /\ UNCHANGED <<active_workflows, next_id, clock, github_client, remote, executed,
                   last_result, pr_workflow_vars, github_vars, observed, call_vars>>

\* _complete_workflow: del self.active_workflows[workflow_id] and the return;
\* KeyError when another thread deleted the key, caught by the except clause
\* of execute_pr_workflow unless it was raised under that clause
CwDelete(t) ==
    /\ pc[t] = "cw_delete"
    /\ LET f == frame[t]
       IN  IF f.workflow_id \in DOMAIN active_workflows
           THEN /\ active_workflows' =
                       Restrict(active_workflows, DOMAIN active_workflows \ {f.workflow_id})
                /\ Goto(t, "done", [workflow_id |-> f.workflow_id,
                                     ret |-> [status |-> f.cw.status,
                                              workflow_id |-> f.workflow_id,
                                              message |-> f.cw.message,
                                              result |-> f.cw.result]])
           ELSE /\ UNCHANGED active_workflows
                /\ IF f.in_handler
                   THEN Goto(t, "raised", [workflow_id |-> f.workflow_id])
                   ELSE EnterComplete(t, "failed", "Error executing PR workflow",
                                      NoneDict, TRUE)
    /\ UNCHANGED <<completed_workflows, next_id, clock, github_client, remote, executed,
                   last_result, pr_workflow_vars, github_vars, observed, call_vars>>

\* get_workflow_status(workflow_id): where the workflow was found, its status
GetWorkflowStatus ==
    /\ \E workflow_id \in 1..next_id :
          observed' =
              IF workflow_id \in DOMAIN active_workflows
              THEN [query |-> "get_workflow_status", workflow_id |-> workflow_id,
                    found_in |-> "active", status |-> active_workflows[workflow_id].status]
              ELSE IF \E i \in DOMAIN completed_workflows :
                          completed_workflows[i].workflow_id = workflow_id
              THEN [query |-> "get_workflow_status", workflow_id |-> workflow_id,
                    found_in |-> "completed", status |-> ObjectOf(workflow_id).status]
              ELSE [query |-> "get_workflow_status", workflow_id |-> workflow_id,
                    found_in |-> "none", status |-> "error"]
    /\ UNCHANGED <<manager_vars, pr_workflow_vars, github_vars, pc, frame, call_vars>>

\* get_active_workflows(): the keys of active_workflows
ListActive ==
    /\ observed' = [query |-> "get_active_workflows",
                    active_workflows |-> DOMAIN active_workflows,
                    count |-> Cardinality(DOMAIN active_workflows)]
    /\ UNCHANGED <<manager_vars, pr_workflow_vars, github_vars, pc, frame, call_vars>>

\* get_completed_workflows(): the ids of the workflows of completed_workflows
ListCompleted ==
    /\ observed' = [query |-> "get_completed_workflows",
                    completed_workflows |->
                        [i \in DOMAIN completed_workflows |->
                            completed_workflows[i].workflow_id],
                    count |-> Len(completed_workflows)]
    /\ UNCHANGED <<manager_vars, pr_workflow_vars, github_vars, pc, frame, call_vars>>

\* PRManager.__init__, GitHubManager.__init__ and a repository
ThreadInit ==
    /\ active_workflows = [w \in {} |-> NoneDict]
    /\ completed_workflows = <<>>
    /\ next_id = 0
    /\ clock = 0
    /\ github_client \in BOOLEAN
    /\ remote = [default_branch |-> main, branches |-> (main :> InitialTree), pulls |-> {}]
    /\ executed = [w \in WorkflowIds |-> <<>>]
    /\ last_result = [call |-> "init"]
    /\ pr_workflow = PRWorkflowNew
    /\ pr_workflow_call = "init"
    /\ github_call = [action |-> "init"]
    /\ github_calls = 0
    /\ ThreadsIdle
    /\ CallsIdle

ThreadNext ==
    \/ ThreadStart
    \/ \E t \in Threads : ThreadCall(t)
    \/ \E t \in Threads : Lookup(t)
    \/ \E t \in Threads : RunStage(t)
    \/ \E t \in Threads : RecordStep(t)
    \/ \E t \in Threads : TestStage(t)
    \/ \E t \in Threads : CwCheck(t)
    \/ \E t \in Threads : CwStatus(t)
    \/ \E t \in Threads : CwFields(t)
    \/ \E t \in Threads : CwAppend(t)
    \/ \E t \in Threads : CwDelete(t)
    \/ GetWorkflowStatus
    \/ ListActive
    \/ ListCompleted

ThreadSpec == ThreadInit /\ [][ThreadNext]_vars

(***************************************************************************)
(* One commit_multiple_files call run statement by statement while another *)
(* writer pushes to the same branch.  The revision marker of a file is the *)
(* blob SHA the host derives from its content; the host accepts            *)
(* update_file only with the marker of the file's current content and      *)
(* create_file only for a path that does not exist.                        *)
(***************************************************************************)
\* existing_file.sha: the blob SHA of a content
BlobSha(content) == <<"sha", content>>

\* the files_dict of the call
RaceFileMaps ==
    {("a.py" :> "v2"), ("a.py" :> "v2" @@ "b.py" :> "v1"), ("a.py" :> "v1" @@ "b.py" :> "v2")}

\* the contents the other writer pushes to a path (it creates or updates a file)
WriterContents == {"v1", "v2", "v3"}

\* the paths of files_dict in the order files_dict.items() yields them
FileOrder(files_dict) == SelectSeq(PathOrder, LAMBDA p : p \in DOMAIN files_dict)

\* repo_obj.get_contents(file_path, ref=branch_name): the file, or a 404
get_contents(tree, file_path) ==
    IF tree[file_path] = NoFile
    THEN [found |-> FALSE, error |-> GithubException(404)]
    ELSE [found |-> TRUE, decoded_content |-> tree[file_path],
          sha |-> BlobSha(tree[file_path])]

\* repo_obj.update_file(path, message, content, sha, branch) on the host
update_file(tree, path, content, sha) ==
    IF tree[path] # NoFile /\ BlobSha(tree[path]) = sha
    THEN [ok |-> TRUE, tree |-> [tree EXCEPT ![path] = content]]
    ELSE [ok |-> FALSE, tree |-> tree, error |-> GithubException(409)]

\* repo_obj.create_file(path, message, content, branch) on the host
create_file(tree, path, content) ==
    IF tree[path] = NoFile
    THEN [ok |-> TRUE, tree |-> [tree EXCEPT ![path] = content]]
    ELSE [ok |-> FALSE, tree |-> tree, error |-> GithubException(422)]

UpdateSha_current(existing_sha, current_sha) == current_sha

\* the sha argument of update_file: sha=existing_file.sha, the marker read
UpdateSha(existing_sha, current_sha) == existing_sha

\* the file of the current iteration, its new content, the tree of the branch
RacePath == FileOrder(commit_run.files)[commit_run.i]
RaceContent == commit_run.files[RacePath]
RaceTree == remote.branches[main]

\* the loop goes to the next file
NextFile(run) == [run EXCEPT !.i = @ + 1, !.pc = "next", !.existing = NoneDict]

\* GitHubManager.__init__ with a token, the repository, the call entered
RaceInit ==
    /\ \E files \in RaceFileMaps :
          commit_run = [pc |-> "next", files |-> files, i |-> 1, existing |-> NoneDict,
                        committed |-> <<>>, failed |-> <<>>, writes |-> 0,
                        result |-> NoneDict]
    /\ retry = [pc |-> "idle"]
    /\ util_call = [pc |-> "idle"]
    /\ github_client = TRUE
    /\ remote = [default_branch |-> main, branches |-> (main :> InitialTree), pulls |-> {}]
    /\ active_workflows = [w \in {} |-> NoneDict]
    /\ completed_workflows = <<>>
    /\ next_id = 0
    /\ clock = 0
    /\ executed = [w \in WorkflowIds |-> <<>>]
    /\ last_result = [call |-> "init"]
    /\ pr_workflow = PRWorkflowNew
    /\ pr_workflow_call = "init"
    /\ github_call = [action |-> "init"]
    /\ github_calls = 0
    /\ ThreadsIdle

\* what the statements of the call and the other writer leave alone
RaceUnchanged ==
    UNCHANGED <<active_workflows, completed_workflows, next_id, clock, github_client,
                executed, last_result, pr_workflow_vars, github_vars, thread_vars, retry,
                util_call>>

\* existing_file = repo_obj.get_contents(...) and the comparison of contents
ReadFile ==
    /\ commit_run.pc = "next"
    /\ commit_run.i <= Len(FileOrder(commit_run.files))
    /\ LET existing_file == get_contents(RaceTree, RacePath)
       IN  commit_run' =
              IF ~existing_file.found
              THEN [commit_run EXCEPT !.pc = "create"]
              ELSE IF ContentUnchanged(existing_file.decoded_content, RaceContent)
              THEN NextFile([commit_run EXCEPT !.committed =
                                Append(@, [path |-> RacePath, action |-> "unchanged"])])
              ELSE [commit_run EXCEPT !.pc = "update", !.existing = existing_file]
    /\ UNCHANGED remote
    /\ RaceUnchanged

\* repo_obj.update_file(..., sha=existing_file.sha, ...) and what follows it
UpdateFile ==
    /\ commit_run.pc = "update"
    /\ LET out == update_file(RaceTree, RacePath, RaceContent,
                              UpdateSha(commit_run.existing.sha, BlobSha(RaceTree[RacePath])))
       IN  /\ remote' = [remote EXCEPT !.branches[main] = out.tree]
           /\ commit_run' =
                 IF out.ok
                 THEN NextFile([commit_run EXCEPT !.committed =
                                   Append(@, [path |-> RacePath, action |-> "updated"])])
                 ELSE NextFile(RecordFailed(commit_run, FailedClassified(RacePath, out.error)))
    /\ RaceUnchanged

\* repo_obj.create_file(...) in the handler of the 404, and what follows it
CreateFile ==
    /\ commit_run.pc = "create"
    /\ LET out == create_file(RaceTree, RacePath, RaceContent)
       IN  /\ remote' = [remote EXCEPT !.branches[main] = out.tree]
           /\ commit_run' =
                 IF out.ok
                 THEN NextFile([commit_run EXCEPT !.committed =
                                   Append(@, [path |-> RacePath, action |-> "created"])])
                 ELSE NextFile(RecordFailed(commit_run,
                                            [path |-> RacePath, error |-> "Exception"]))
    /\ RaceUnchanged

\* the return statement after the loop
ReturnResult ==
    /\ commit_run.pc = "next"
    /\ commit_run.i > Len(FileOrder(commit_run.files))
    /\ commit_run' =
          [commit_run EXCEPT !.pc = "done",
                             !.result = [status |-> CommitStatus(commit_run.failed),
                                         committed_files |-> commit_run.committed,
                                         failed_files |-> commit_run.failed,
                                         total_files |-> Len(FileOrder(commit_run.files))]]
    /\ UNCHANGED remote
    /\ RaceUnchanged

\* another client pushes a change of one file to the branch
OtherWriter ==
    /\ commit_run.pc \in {"next", "update", "create"}
    /\ commit_run.writes < MaxWrites
    /\ \E path \in Paths, content \in WriterContents :
          /\ RaceTree[path] # content
          /\ remote' = [remote EXCEPT !.branches[main][path] = content]
    /\ commit_run' = [commit_run EXCEPT !.writes = @ + 1]
    /\ RaceUnchanged

RaceNext == ReadFile \/ UpdateFile \/ CreateFile \/ ReturnResult \/ OtherWriter

RaceSpec == RaceInit /\ [][RaceNext]_vars

(***************************************************************************)
(* ErrorHandler.retry_with_backoff (utils/error_handler.py) and the        *)
(* with_error_handling(ErrorType.GITHUB_API, retry=True) decorator of      *)
(* create_branch, commit_multiple_files and create_pull_request.           *)
(***************************************************************************)
\* max_attempts of default_retry_config and of error_configs
DefaultMaxAttempts == 3
GithubApiMaxAttempts == 5
RateLimitMaxAttempts == 3
NetworkMaxAttempts == 4

\* retryable_status_codes of ErrorType.GITHUB_API and the general list
RetryableStatusCodes == {429, 500, 502, 503, 504}

\* the error types a caller passes
ErrorTypes == {"github_api", "rate_limit", "network", "validation"}

\* _get_retry_config(error_type, None)['max_attempts']
MaxAttempts(error_type) ==
    CASE error_type = "github_api" -> GithubApiMaxAttempts
      [] error_type = "rate_limit" -> RateLimitMaxAttempts
      [] error_type = "network" -> NetworkMaxAttempts
      [] OTHER -> DefaultMaxAttempts

\* the HTTP statuses a remote call fails with
HttpStatuses == {401, 403, 404, 422} \cup RetryableStatusCodes

\* the exceptions a remote call raises: the network failures and the HTTPError
\* of requests (subclasses of RequestException), the GithubException of
\* PyGithub (it has a status and no response), an error of another library
\* that carries a response
NetworkErrors == {[type |-> "ConnectionError"], [type |-> "Timeout"]}
HttpErrors ==
    {[type |-> "HTTPError", response |-> [status_code |-> sc]] : sc \in HttpStatuses}
    \cup {GithubException(sc) : sc \in HttpStatuses}
    \cup {[type |-> "APIStatusError", response |-> [status_code |-> sc]] : sc \in HttpStatuses}
RemoteErrors == NetworkErrors \cup HttpErrors

\* the HTTP status an exception stands for, 0 for a network failure
HttpStatus(error) ==
    IF "response" \in DOMAIN error THEN error.response.status_code
    ELSE IF "status" \in DOMAIN error THEN error.status
    ELSE 0

\* isinstance(error, (ConnectionError, Timeout, RequestException))
IsRequestException(error) ==
    error.type \in {"ConnectionError", "Timeout", "RequestException", "HTTPError"}

\* ErrorHandler._is_retryable_error
is_retryable_error(error, error_type) ==
    IF IsRequestException(error) THEN TRUE
    ELSE IF "response" \in DOMAIN error
    THEN error.response.status_code \in RetryableStatusCodes
    ELSE IF error_type = "rate_limit" THEN TRUE
    ELSE IF error_type = "openai_api" THEN Get(error, "retryable_message", FALSE)
    ELSE IF error_type \in {"authentication", "validation"} THEN FALSE
    ELSE TRUE

SleepBeforeNext_always(attempt, max_attempts) == TRUE

\* the test attempt < config['max_attempts'] - 1 that guards time.sleep
SleepBeforeNext(attempt, max_attempts) == attempt < max_attempts - 1

\* the callables given to retry_with_backoff: a remote call that raises its
\* failures, and the three decorated methods of GitHubManager
DecoratedMethods == {"create_branch", "commit_multiple_files", "create_pull_request"}
RetryFuncs == {"remote_call"} \cup DecoratedMethods

\* the remote calls of a decorated method that can be made to fail
MethodFaults(func) ==
    CASE func = "create_branch" -> BranchFaults
      [] func = "commit_multiple_files" -> CommitFaults
      [] OTHER -> PullFaults

\* the faults that stand for a 500 of the host, and the one that stands for
\* a network failure
ServerErrorFaults == {"get_repo", "check_branch", "get_base", "get_branch", "get_head",
                      "create_pull"}
NetworkFaults == {"crash"}

\* the decorated method, called with arguments for which it succeeds when no
\* remote call fails
CallMethod(func, R, fault) ==
    CASE func = "create_branch" -> create_branch(R, TRUE, feat, main, fault)
      [] func = "commit_multiple_files" ->
            commit_multiple_files(R, TRUE, dev, ("a.py" :> "v1"), fault, NoFileFaults)
      [] OTHER -> GitHubManager_create_pull_request(R, TRUE, dev, <<"T">>, <<>>, main, fault)

\* retry_with_backoff entered: config read, last_exception = None, attempt = 0
RetryInit ==
    /\ \E func \in RetryFuncs, error_type \in ErrorTypes :
          /\ func \in DecoratedMethods => error_type = "github_api"
          /\ retry = [pc |-> "call", func |-> func, error_type |-> error_type,
                      attempt |-> 0, invocations |-> 0, sleeps |-> 0, fault |-> "none",
                      last_exception |-> NoneDict, result |-> NoneDict]
    /\ commit_run = [pc |-> "idle"]
    /\ util_call = [pc |-> "idle"]
    /\ github_client = TRUE
    /\ remote = [default_branch |-> main,
                 branches |-> (main :> InitialTree) @@ (dev :> DevTree), pulls |-> {}]
    /\ active_workflows = [w \in {} |-> NoneDict]
    /\ completed_workflows = <<>>
    /\ next_id = 0
    /\ clock = 0
    /\ executed = [w \in WorkflowIds |-> <<>>]
    /\ last_result = [call |-> "init"]
    /\ pr_workflow = PRWorkflowNew
    /\ pr_workflow_call = "init"
    /\ github_call = [action |-> "init"]
    /\ github_calls = 0
    /\ ThreadsIdle

\* what the statements of retry_with_backoff leave alone
RetryUnchanged ==
    UNCHANGED <<active_workflows, completed_workflows, next_id, clock, github_client,
                executed, last_result, pr_workflow_vars, github_vars, thread_vars,
                commit_run, util_call>>

\* the except clause of retry_with_backoff for the exception e of this attempt
AfterException(r, e) ==
    LET raised == [r EXCEPT !.invocations = @ + 1, !.last_exception = e]
    IN  IF ~is_retryable_error(e, r.error_type)
        THEN [raised EXCEPT !.pc = "raised"]
        ELSE IF SleepBeforeNext(r.attempt, MaxAttempts(r.error_type))
        THEN [raised EXCEPT !.pc = "sleep"]
        ELSE [raised EXCEPT !.pc = "raised", !.attempt = @ + 1]

\* return func() for a remote call: it returns, or raises one of RemoteErrors
InvokeCallable ==
    /\ retry.pc = "call"
    /\ retry.func = "remote_call"
    /\ \/ retry' = [retry EXCEPT !.pc = "returned", !.invocations = @ + 1,
                                 !.result = [status |-> "success"]]
       \/ \E e \in RemoteErrors : retry' = AfterException(retry, e)
    /\ UNCHANGED remote
    /\ RetryUnchanged

\* return func() for a decorated method: the method catches the failures of
\* its remote calls and returns a dictionary
InvokeMethod ==
    /\ retry.pc = "call"
    /\ retry.func \in DecoratedMethods
    /\ \E fault \in MethodFaults(retry.func) :
          \E out \in {CallMethod(retry.func, remote, fault)} :
              /\ remote' = out.remote
              /\ retry' = [retry EXCEPT !.pc = "returned", !.invocations = @ + 1,
                                        !.fault = fault, !.result = out.result]
    /\ RetryUnchanged

\* time.sleep(delay), then the next iteration of the loop over
\* range(max_attempts) or, after the last one, raise last_exception
Sleep ==
    /\ retry.pc = "sleep"
    /\ retry' = [retry EXCEPT !.sleeps = @ + 1, !.attempt = @ + 1,
                              !.pc = IF retry.attempt + 1 < MaxAttempts(retry.error_type)
                                     THEN "call" ELSE "raised"]
    /\ UNCHANGED remote
    /\ RetryUnchanged

RetryNext == InvokeCallable \/ InvokeMethod \/ Sleep

RetrySpec == RetryInit /\ [][RetryNext]_vars

\* func() and time.sleep return: every statement of the call is executed
RetryLiveSpec == RetryInit /\ [][RetryNext]_vars /\ WF_vars(RetryNext)

(***************************************************************************)
(* PRManager.get_completed_workflows on a registry that workflows are      *)
(* started in, executed in and finalized in.                               *)
(***************************************************************************)
\* the slice s[start:] of a Python list: a negative start counts from the end
SliceFrom(s, start) ==
    LET n == Len(s)
        lo == IF start < 0
              THEN (IF n + start < 0 THEN 0 ELSE n + start)
              ELSE (IF start > n THEN n ELSE start)
    IN  SubSeq(s, lo + 1, n)

\* PRManager.get_completed_workflows(limit)
get_completed_workflows(S, limit) ==
    [status |-> "success",
     completed_workflows |-> SliceFrom(S.completed, 0 - limit),
     count |-> Len(S.completed)]

\* the limits callers pass
Limits == 0..(MaxListed + 1)

\* PRManager.__init__, GitHubManager.__init__ with a token, a repository
ListInit ==
    /\ active_workflows = [w \in {} |-> NoneDict]
    /\ completed_workflows = <<>>
    /\ next_id = 0
    /\ clock = 0
    /\ github_client = TRUE
    /\ remote = [default_branch |-> main, branches |-> (main :> InitialTree), pulls |-> {}]
    /\ executed = [w \in 1..MaxListed |-> <<>>]
    /\ last_result = [call |-> "init"]
    /\ pr_workflow = PRWorkflowNew
    /\ pr_workflow_call = "init"
    /\ github_call = [action |-> "init"]
    /\ github_calls = 0
    /\ ThreadsIdle
    /\ CallsIdle

\* process_pr_request, the repository being reachable or not
ListStart ==
    /\ next_id < MaxListed
    /\ \E user_request \in UserRequests, access \in {"ok", "no_access"} :
          \E now \in {clock + 1} :
          \E out \in {process_pr_request(Manager, user_request, [k \in {} |-> NoneV], now,
                                         access, "ok", Timestamp(now), NoneV)} :
              /\ active_workflows' = out.state.active
              /\ completed_workflows' = out.state.completed
              /\ next_id' = out.state.next_id
              /\ clock' = now
              /\ last_result' = [call |-> "process_pr_request",
                                 workflow_id |-> out.state.next_id, ret |-> out.ret]
    /\ UNCHANGED <<github_client, remote, executed, other_vars>>

\* execute_pr_workflow for an active workflow, create_branch succeeding or not
ListExecute ==
    \E workflow_id \in DOMAIN active_workflows, branch_fault \in {"none", "get_repo"} :
        \E now \in {clock + 1} :
        \E out \in {execute_pr_workflow(Manager, remote, github_client, workflow_id,
                                        [files |-> ("a.py" :> "v2")], now,
                                        branch_fault, "none", NoFileFaults)} :
            /\ active_workflows' = out.state.active
            /\ completed_workflows' = out.state.completed
            /\ next_id' = out.state.next_id
            /\ remote' = out.remote
            /\ clock' = now
            /\ executed' = [executed EXCEPT ![workflow_id] = @ \o out.trace]
            /\ last_result' = [call |-> "execute_pr_workflow",
                               workflow_id |-> workflow_id, ret |-> out.ret]
            /\ UNCHANGED <<github_client, other_vars>>

\* get_completed_workflows(limit)
GetCompletedWorkflows ==
    /\ \E limit \in Limits :
          last_result' = [call |-> "get_completed_workflows", limit |-> limit,
                          ret |-> get_completed_workflows(Manager, limit)]
    /\ UNCHANGED <<active_workflows, completed_workflows, next_id, clock, github_client,
                   remote, executed, other_vars>>

ListNext == ListStart \/ ListExecute \/ GetCompletedWorkflows

ListSpec == ListInit /\ [][ListNext]_vars

(***************************************************************************)
(* Reading the registry.                                                   *)
(***************************************************************************)
\* every workflow of the registry, active or completed
AllWorkflows ==
    {active_workflows[w] : w \in DOMAIN active_workflows} \cup Range(completed_workflows)

\* the workflow has a step of that name
HasStep(w, name) == \E i \in DOMAIN w.steps : w.steps[i].step_name = name

\* the first step of that name
StepOf(w, name) == w.steps[CHOOSE i \in DOMAIN w.steps : w.steps[i].step_name = name]

\* what StartWorkflow bundled in the prepare_workflow step
Prepared(w) == StepOf(w, "prepare_workflow").result.result

\* the workflow was finalized as failed: it left the active set and is in the
\* completed collection with status failed and completed_at set
FinalizedAs(w, status) ==
    /\ w.workflow_id \notin DOMAIN active_workflows
    /\ w \in Range(completed_workflows)
    /\ w.status = status
    /\ "completed_at" \in DOMAIN w

\* the status of a result dictionary, as _add_workflow_step reads it
StatusOf(result) == Get(result, "status", "unknown")

(***************************************************************************)
(* C1.  Every file write of the commit_changes step targets the branch     *)
(* name fixed by StartWorkflow (the one create_branch creates), never the  *)
(* base branch or another branch.  The code breaks this: the commit task   *)
(* carries no branch name and the files are written to 'main'.             *)
(***************************************************************************)
C1_CommitWritesTargetWorkflowBranch ==
    \A w \in AllWorkflows :
        \A i \in DOMAIN executed[w.workflow_id] :
            LET e == executed[w.workflow_id][i]
            IN  e.step = "commit_changes" =>
                    \A j \in DOMAIN e.calls : e.calls[j].branch = Prepared(w).branch_name

(***************************************************************************)
(* C2.  A workflow is finalized as completed only if a pull request from   *)
(* its branch exists on the remote.  The code breaks this: the engine's    *)
(* create_pull_request returns a placeholder and never calls the remote.   *)
(***************************************************************************)
C2_CompletedMeansRemotePullRequest ==
    \A w \in Range(completed_workflows) :
        w.status = "completed" =>
            \E pr \in remote.pulls : pr.head = Prepared(w).branch_name

(***************************************************************************)
(* C3.  Once a step is recorded with a non-success result, it is the last  *)
(* step of its workflow, nothing was run after it and the workflow is      *)
(* finalized as failed.  The code breaks this for analyze_repository.      *)
(***************************************************************************)
C3_FailedStepIsLast ==
    \A w \in AllWorkflows :
        \A i \in DOMAIN w.steps :
            w.steps[i].status # "success" =>
                /\ i = Len(w.steps)
                /\ FinalizedAs(w, "failed")
                /\ w.steps[i].step_name \notin Range(RemoteSteps)
                       => executed[w.workflow_id] = <<>>

(***************************************************************************)
(* C4.  When commit_changes returns a partial result, create_pull_request  *)
(* is never attempted, the workflow is finalized as failed and the         *)
(* commit_changes step keeps the result with its committed_files and       *)
(* failed_files.                                                           *)
(***************************************************************************)
C4_PartialCommitNeverProposed ==
    \A w \in AllWorkflows :
        \A i \in DOMAIN executed[w.workflow_id] :
            LET e == executed[w.workflow_id][i]
            IN  (e.step = "commit_changes" /\ StatusOf(e.result) = "partial") =>
                    /\ i = Len(executed[w.workflow_id])
                    /\ ~HasStep(w, "create_pull_request")
                    /\ FinalizedAs(w, "failed")
                    /\ HasStep(w, "commit_changes")
                    /\ StepOf(w, "commit_changes").result = e.result
                    /\ e.result.failed_files # <<>>
                    /\ Len(e.result.committed_files) + Len(e.result.failed_files)
                           = e.result.total_files

\* a commit_changes step that returned partial
C4_Witness ==
    \E w \in AllWorkflows : \E i \in DOMAIN executed[w.workflow_id] :
        /\ executed[w.workflow_id][i].step = "commit_changes"
        /\ StatusOf(executed[w.workflow_id][i].result) = "partial"
        /\ executed[w.workflow_id][i].result.committed_files # <<>>

(***************************************************************************)
(* C5.  The remote steps run in the order create_branch, commit_changes,   *)
(* create_pull_request, each at most once, and each only after the one     *)
(* before it returned success.                                             *)
(***************************************************************************)
C5_RemoteStepsInOrder ==
    \A id \in WorkflowIds :
        /\ Len(executed[id]) <= Len(RemoteSteps)
        /\ \A i \in DOMAIN executed[id] :
              /\ executed[id][i].step = RemoteSteps[i]
              /\ i > 1 => StatusOf(executed[id][i - 1].result) = "success"

\* a workflow that ran all three remote steps and wrote a file
C5_Witness ==
    \E id \in WorkflowIds :
        /\ Len(executed[id]) = 3
        /\ executed[id][2].calls # <<>>

(***************************************************************************)
(* C6.  If validate_repository fails, process_pr_request returns status    *)
(* failed with the validation message, the workflow is finalized as failed *)
(* in the completed collection and validate_repository is its only step.   *)
(***************************************************************************)
ValidationFailed(w) ==
    /\ w.steps # <<>>
    /\ w.steps[1].step_name = "validate_repository"
    /\ w.steps[1].status # "success"

C6_ValidationFailureIsTerminal ==
    \A w \in AllWorkflows :
        ValidationFailed(w) =>
            /\ Len(w.steps) = 1
            /\ FinalizedAs(w, "failed")
            /\ w.completion_message = w.steps[1].result.message
            /\ executed[w.workflow_id] = <<>>
            /\ (last_result.call = "process_pr_request"
                   /\ last_result.workflow_id = w.workflow_id)
                  => /\ last_result.ret.status = "failed"
                     /\ last_result.ret.message = w.steps[1].result.message

\* a process_pr_request that just returned after a failed validation
C6_Witness ==
    /\ last_result.call = "process_pr_request"
    /\ \E w \in AllWorkflows :
          w.workflow_id = last_result.workflow_id /\ ValidationFailed(w)

(***************************************************************************)
(* C7.  Every execute_pr_workflow call on an active workflow returns with  *)
(* the workflow finalized: out of the active set, in the completed         *)
(* collection, with status completed or failed and completed_at set,       *)
(* whether the remote calls succeed, return errors or raise.               *)
(***************************************************************************)
C7_ExecuteFinalizes ==
    [][ (last_result'.call = "execute_pr_workflow"
           /\ last_result'.workflow_id \in DOMAIN active_workflows)
        => /\ last_result'.workflow_id \notin DOMAIN active_workflows'
           /\ \E i \in DOMAIN completed_workflows' :
                 /\ completed_workflows'[i].workflow_id = last_result'.workflow_id
                 /\ completed_workflows'[i].status \in {"completed", "failed"}
                 /\ "completed_at" \in DOMAIN completed_workflows'[i]
           /\ last_result'.ret.status \in {"completed", "failed"} ]_vars

\* an execute_pr_workflow that ended in its except clause
C7_Witness ==
    /\ last_result.call = "execute_pr_workflow"
    /\ \E w \in Range(completed_workflows) :
          /\ w.workflow_id = last_result.workflow_id
          /\ w.completion_message = "Error executing PR workflow"

(***************************************************************************)
(* C8.  execute_pr_workflow for a workflow id that is not active returns   *)
(* the not-found error and changes nothing: no remote call is made, and    *)
(* the registry (with the steps, status and completed_at of every          *)
(* finalized workflow) stays as it was.                                    *)
(***************************************************************************)
C8_UnknownWorkflowChangesNothing ==
    [][ (last_result'.call = "execute_pr_workflow"
           /\ last_result'.workflow_id \notin DOMAIN active_workflows)
        => /\ last_result'.ret = NotFound
           /\ UNCHANGED <<active_workflows, completed_workflows, next_id,
                          remote, executed>> ]_vars

\* a not-found return for the id of a finalized workflow
C8_Witness ==
    /\ last_result.call = "execute_pr_workflow"
    /\ last_result.ret = NotFound
    /\ \E w \in Range(completed_workflows) :
          w.workflow_id = last_result.workflow_id /\ HasStep(w, "create_branch")

(***************************************************************************)
(* C9.  execute_pr_workflow fails fast when the branch name, the PR title  *)
(* or the PR description cannot be located in the step history: the        *)
(* workflow is finalized as failed and no remote mutation was made.  The   *)
(* code breaks this: it tests the branch name only.                        *)
(***************************************************************************)
C9_MissingPrerequisiteFailsFast ==
    \A w \in Range(completed_workflows) :
        (/\ HasStep(w, "prepare_workflow")
         /\ \/ ~Truthy(Prepared(w).branch_name)
            \/ ~Truthy(Prepared(w).pr_title)
            \/ ~Truthy(Prepared(w).pr_description))
        => /\ w.status = "failed"
           /\ \A i \in DOMAIN executed[w.workflow_id] :
                 executed[w.workflow_id][i].calls = <<>>

(***************************************************************************)
(* C10.  After a process_pr_request that returns ready_for_changes, the    *)
(* prepare_workflow step holds a non-empty branch name, PR title and PR    *)
(* description.  The code breaks this: the default title replaces an       *)
(* absent key only, not a None or empty value.                             *)
(***************************************************************************)
C10_PreparedFieldsNonEmpty ==
    \A w \in AllWorkflows :
        HasStep(w, "prepare_workflow") =>
            /\ Truthy(Prepared(w).branch_name)
            /\ Truthy(Prepared(w).pr_title)
            /\ Truthy(Prepared(w).pr_description)

(***************************************************************************)
(* C11.  A generate_branch_name step is recorded only when the caller      *)
(* supplied no branch name, and the branch name prepare_workflow carries   *)
(* with ready_for_changes passes validate_branch_name, supplied or not.    *)
(* The code breaks this: a supplied branch name is taken as it is.         *)
(***************************************************************************)
C11_PreparedBranchNameIsValid ==
    \A w \in AllWorkflows :
        /\ HasStep(w, "generate_branch_name")
              => ~Truthy(Get(w.options, "branch_name", NoneV))
        /\ HasStep(w, "prepare_workflow")
              => validate_branch_name(Prepared(w).branch_name)

(***************************************************************************)
(* C12.  Every file the commit_changes step wrote to the remote passes     *)
(* check_file_safety on its path and content: no branch of the remote      *)
(* holds an unsafe file.  The code breaks this: execute_pr_workflow        *)
(* commits the change set without calling validate_changes or              *)
(* check_file_safety.                                                      *)
(***************************************************************************)
C12_OnlySafeFilesWritten ==
    \A b \in DOMAIN remote.branches : \A file_path \in Paths :
        remote.branches[b][file_path] # NoFile
            => check_file_safety(file_path, remote.branches[b][file_path])

(***************************************************************************)
(* C13.  In every state of the registry: a workflow of the completed       *)
(* collection has completed_at set and status completed or failed; a       *)
(* workflow of the active set is filed under its own id, has status        *)
(* processing and no completed_at; and every workflow started so far is in *)
(* exactly one of the two collections, once.                               *)
(***************************************************************************)
\* the positions of the completed collection that hold workflow id
CompletedAt(id) ==
    {i \in DOMAIN completed_workflows : completed_workflows[i].workflow_id = id}

C13_RegistryPartition ==
    /\ \A w \in Range(completed_workflows) :
          "completed_at" \in DOMAIN w /\ w.status \in {"completed", "failed"}
    /\ \A id \in DOMAIN active_workflows :
          /\ active_workflows[id].workflow_id = id
          /\ active_workflows[id].status = "processing"
          /\ "completed_at" \notin DOMAIN active_workflows[id]
    /\ \A id \in 1..next_id :
          \/ id \in DOMAIN active_workflows /\ CompletedAt(id) = {}
          \/ id \notin DOMAIN active_workflows /\ Cardinality(CompletedAt(id)) = 1
    /\ \A w \in AllWorkflows : w.workflow_id \in 1..next_id

\* every workflow started so far was finalized, one of them as completed
C13_Witness ==
    /\ next_id = MaxWorkflows
    /\ active_workflows = [w \in {} |-> NoneDict]
    /\ \E w \in Range(completed_workflows) : w.status = "completed"

(***************************************************************************)
(* C14.  At every point of an interleaving of execute_pr_workflow with the *)
(* status queries, no workflow is both in the active set and in the        *)
(* completed collection, no workflow of the active set has a terminal      *)
(* status, and get_workflow_status never returns a workflow found in the   *)
(* active set with a terminal status.  The code breaks this:               *)
(* _complete_workflow sets the status, appends and deletes in separate     *)
(* statements under no lock.                                               *)
(***************************************************************************)
C14_FinalizationIsAtomic ==
    /\ \A id \in DOMAIN active_workflows :
          /\ CompletedAt(id) = {}
          /\ active_workflows[id].status \notin {"completed", "failed"}
    /\ (observed.query = "get_workflow_status" /\ observed.found_in = "active")
          => observed.status \notin {"completed", "failed"}

(***************************************************************************)
(* C15.  Whatever the interleaving of the execute_pr_workflow calls, two   *)
(* of them for the same workflow id included, no workflow has two steps of *)
(* the same name and each of create_branch, commit_changes and             *)
(* create_pull_request is run at most once per workflow.  The code breaks  *)
(* this: two calls that both pass the lookup both run the steps.           *)
(***************************************************************************)
C15_StepsRunOnce ==
    /\ \A w \in AllWorkflows : \A i, j \in DOMAIN w.steps :
          i # j => w.steps[i].step_name # w.steps[j].step_name
    /\ \A id \in WorkflowIds : \A i, j \in DOMAIN executed[id] :
          i # j => executed[id][i].step # executed[id][j].step

(***************************************************************************)
(* C16.  The status of a step of a PRWorkflow that is completed or failed  *)
(* never changes again.  The code breaks this: mark_completed and          *)
(* mark_failed set the status whatever it was.                             *)
(***************************************************************************)
C16_StepStatusIsFinal ==
    [][ \A i \in DOMAIN pr_workflow.steps :
            pr_workflow.steps[i].status # "pending"
                => pr_workflow'.steps[i].status = pr_workflow.steps[i].status ]_vars

(***************************************************************************)
(* C17.  In every state of a PRWorkflow, completion_status = success       *)
(* implies that no step has status failed.  The code breaks this:          *)
(* completion_status is success from construction on and is recomputed     *)
(* only by complete_workflow.                                              *)
(***************************************************************************)
C17_SuccessMeansNoFailedStep ==
    pr_workflow.completion_status = "success" => get_failed_steps(pr_workflow) = {}

(***************************************************************************)
(* C18.  complete_workflow sets completion_status to success when no step  *)
(* failed, to partial when some but not all attempted (non-pending) steps  *)
(* failed, and to failed when all attempted steps failed.  The code breaks *)
(* this: it counts the failed steps against all steps, pending ones too.   *)
(***************************************************************************)
C18_CompletionStatusDerived ==
    pr_workflow_call = "complete_workflow" =>
        LET failed == get_failed_steps(pr_workflow)
            attempted == {i \in DOMAIN pr_workflow.steps :
                              pr_workflow.steps[i].status # "pending"}
        IN  pr_workflow.completion_status =
                IF failed = {} THEN "success"
                ELSE IF failed # attempted THEN "partial"
                ELSE "failed"

(***************************************************************************)
(* C19.  create_branch on a branch name that exists on the remote returns  *)
(* an error, makes no mutating call and leaves the remote as it was; when  *)
(* the remote reads succeed the error says that the branch already exists. *)
(***************************************************************************)
C19_ExistingBranchIsRefused ==
    [][ (/\ github_call'.action = "create_branch"
         /\ github_calls' = github_calls + 1
         /\ github_call'.task.branch_name \in DOMAIN remote.branches)
        => /\ StatusOf(github_call'.result) # "success"
           /\ "error" \in DOMAIN github_call'.result
           /\ github_call'.calls = <<>>
           /\ remote' = remote
           /\ (github_client /\ github_call'.fault = "none")
                 => github_call'.result =
                        [status |-> "error", error |-> "Branch already exists"] ]_vars

\* a create_branch that was refused because the branch exists
C19_Witness ==
    /\ github_call.action = "create_branch"
    /\ github_call.task.branch_name \in DOMAIN remote.branches
    /\ github_call.result = [status |-> "error", error |-> "Branch already exists"]

(***************************************************************************)
(* C20.  In every success result of create_branch the reported base_branch *)
(* is a branch of the remote, the one the create_git_ref call took the SHA *)
(* from, and the new branch starts at that branch's commit; the reported   *)
(* base is the requested one when it exists, the default branch of the     *)
(* repository when it does not.                                            *)
(***************************************************************************)
C20_ReportedBaseIsUsedBase ==
    [][ (/\ github_call'.action = "create_branch"
         /\ github_calls' = github_calls + 1
         /\ StatusOf(github_call'.result) = "success")
        => LET requested == Get(github_call'.task, "base_branch", main)
               used == github_call'.result.base_branch
               branch_name == github_call'.task.branch_name
           IN  /\ used \in DOMAIN remote.branches
               /\ github_call'.calls =
                      <<[op |-> "create_git_ref", branch |-> branch_name, base |-> used]>>
               /\ branch_name \in DOMAIN remote'.branches
               /\ remote'.branches[branch_name] = remote.branches[used]
               /\ used = IF requested \in DOMAIN remote.branches
                         THEN requested ELSE remote.default_branch ]_vars

\* a branch created from the default branch because the requested base does
\* not exist
C20_Witness ==
    /\ github_call.action = "create_branch"
    /\ StatusOf(github_call.result) = "success"
    /\ Get(github_call.task, "base_branch", main) \notin DOMAIN remote.branches
    /\ github_call.result.base_branch = remote.default_branch

(***************************************************************************)
(* Readers of the last commit_changes call (github_call) and of the lists  *)
(* committed_files and failed_files of its result.                         *)
(***************************************************************************)
\* the paths listed in committed_files or failed_files
PathsOf(entries) == {entries[i].path : i \in DOMAIN entries}

\* the branch a commit_changes task writes to
CommitBranch(task) == Get(task, "branch_name", main)

\* the call got as far as the loop over the files: a client, a non-empty
\* files dictionary, get_repo and get_branch succeeded
ReachedFileLoop(client, R, call) ==
    /\ client
    /\ DOMAIN call.task.files # {}
    /\ call.fault = "none"
    /\ CommitBranch(call.task) \in DOMAIN R.branches

\* a remote call made for the file raises: the read, or the write that is
\* made when the content on the branch differs
FileFails(R, call, p) ==
    \/ call.file_faults[p] = "read"
    \/ /\ call.file_faults[p] = "write"
       /\ R.branches[CommitBranch(call.task)][p] # call.task.files[p]

(***************************************************************************)
(* C21.  commit_multiple_files is idempotent: a call that follows a        *)
(* successful call with the same files on the same branch, nothing else    *)
(* having written in between, makes no create_file or update_file call,    *)
(* leaves the remote as it is and reports no file as created or updated;   *)
(* when its own reads succeed it reports every file as unchanged.          *)
(***************************************************************************)
C21_SecondCommitIsNoOp ==
    [][ (/\ github_call.action = "commit_changes"
         /\ github_call'.action = "commit_changes"
         /\ github_calls' = github_calls + 1
         /\ github_call'.task = github_call.task
         /\ StatusOf(github_call.result) = "success")
        => /\ github_call'.calls = <<>>
           /\ remote' = remote
           /\ "committed_files" \in DOMAIN github_call'.result
                 => \A i \in DOMAIN github_call'.result.committed_files :
                       github_call'.result.committed_files[i].action = "unchanged"
           /\ (github_call'.fault = "none" /\ github_call'.file_faults = NoFileFaults)
                 => /\ StatusOf(github_call'.result) = "success"
                    /\ PathsOf(github_call'.result.committed_files)
                          = DOMAIN github_call'.task.files
                    /\ github_call'.result.unchanged_files
                          = Cardinality(DOMAIN github_call'.task.files)
                    /\ github_call'.result.successful_commits = 0 ]_vars

\* a second call that found every file unchanged on a branch the first call
\* had written to
C21_Witness ==
    /\ github_calls >= 2
    /\ github_call.action = "commit_changes"
    /\ StatusOf(github_call.result) = "success"
    /\ github_call.calls = <<>>
    /\ github_call.result.unchanged_files = github_call.result.total_files
    /\ remote.branches[CommitBranch(github_call.task)] \notin {InitialTree, DevTree}

C23_EveryFileReportedOnce ==
    [][ (/\ github_call'.action = "commit_changes"
         /\ github_calls' = github_calls + 1
         /\ ReachedFileLoop(github_client, remote, github_call'))
        => LET result == github_call'.result
               files == DOMAIN github_call'.task.files
               committed == result.committed_files
               failed == result.failed_files
           IN  /\ PathsOf(committed) \cap PathsOf(failed) = {}
               /\ PathsOf(committed) \cup PathsOf(failed) = files
               /\ Cardinality(PathsOf(committed)) = Len(committed)
               /\ Cardinality(PathsOf(failed)) = Len(failed)
               /\ result.total_files = Len(committed) + Len(failed)
               /\ result.total_files = Cardinality(files) ]_vars

\* the first file failed and the file after it was still committed
C23_Witness ==
    /\ github_call.action = "commit_changes"
    /\ "failed_files" \in DOMAIN github_call.result
    /\ PathsOf(github_call.result.failed_files) = {"a.py"}
    /\ PathsOf(github_call.result.committed_files) = {"b.py"}

(***************************************************************************)
(* C24.  When another writer changed a file between the read of            *)
(* commit_multiple_files and its update_file call, the update, which       *)
(* carries the revision marker that was read, is rejected: the branch      *)
(* stays as the other writer left it and the file is listed in             *)
(* failed_files, not in committed_files.  An update never replaces a       *)
(* content other than the one that was read.                               *)
(***************************************************************************)
C24_StaleUpdateIsRejected ==
    [][ (commit_run.pc = "update" /\ commit_run'.pc # "update")
        => /\ RaceTree[RacePath] # commit_run.existing.decoded_content
                 => /\ remote' = remote
                    /\ RacePath \in PathsOf(commit_run'.failed)
                    /\ RacePath \notin PathsOf(commit_run'.committed)
           /\ remote' # remote
                 => RaceTree[RacePath] = commit_run.existing.decoded_content ]_vars

\* the call returned after an update was rejected: the file the other writer
\* changed is reported as failed and the branch holds the other writer's content
C24_Witness ==
    /\ commit_run.pc = "done"
    /\ commit_run.writes > 0
    /\ commit_run.result.status = "partial"
    /\ \E i \in DOMAIN commit_run.result.failed_files :
          /\ commit_run.result.failed_files[i].path = "a.py"
          /\ "error_code" \in DOMAIN commit_run.result.failed_files[i]
    /\ RaceTree["a.py"] = "v3"

(***************************************************************************)
(* C25.  create_pull_request never creates a pull request when an open     *)
(* pull request with the same head and base exists: it makes no            *)
(* create_pull call, leaves the pull requests as they are and, once it has *)
(* found the repository and both branches, returns an error that carries   *)
(* the URL of the existing pull request.  The code breaks this when the    *)
(* search for the existing pull request fails.                             *)
(***************************************************************************)
C25_ExistingPullRequestIsRefused ==
    [][ (/\ github_call'.action = "create_pull_request"
         /\ github_calls' = github_calls + 1
         /\ get_pulls(remote, github_call'.task.branch_name,
                      Get(github_call'.task, "base_branch", main)) # {})
        => /\ remote' = remote
           /\ github_call'.calls = <<>>
           /\ StatusOf(github_call'.result) # "success"
           /\ (/\ github_client
               /\ github_call'.task.title # <<>>
               /\ github_call'.fault \notin {"get_repo", "crash", "get_head", "get_base"})
                 => /\ StatusOf(github_call'.result) = "error"
                    /\ "existing_pr_url" \in DOMAIN github_call'.result
                    /\ \E pr \in get_pulls(remote, github_call'.task.branch_name,
                                           Get(github_call'.task, "base_branch", main)) :
                          github_call'.result.existing_pr_url = pr.html_url ]_vars

(***************************************************************************)
(* C26.  Without a token (github_client is None) every call that changes   *)
(* the remote (create_branch, commit_multiple_files, update_file_content,  *)
(* delete_file, create_pull_request) makes no remote call, leaves the      *)
(* remote as it is and returns a dictionary whose status is 'error'.  The  *)
(* code breaks this: three of the five return a dictionary without status. *)
(***************************************************************************)
C26_NoTokenMeansStatusError ==
    [][ (github_calls' = github_calls + 1 /\ ~github_client)
        => /\ remote' = remote
           /\ github_call'.calls = <<>>
           /\ "status" \in DOMAIN github_call'.result
           /\ github_call'.result.status = "error" ]_vars

(***************************************************************************)
(* C27.  A retryable failure (a 500 of the host, a network failure) of a   *)
(* remote call inside create_branch, commit_multiple_files or              *)
(* create_pull_request is re-attempted until the method succeeds or five   *)
(* attempts were made: the decorated call ends with that failure only      *)
(* after GithubApiMaxAttempts invocations.  The code breaks this: the      *)
(* methods return the failure as a dictionary and are never re-attempted.  *)
(***************************************************************************)
C27_RetryableFailureIsReattempted ==
    (/\ retry.pc \in {"returned", "raised"}
     /\ retry.func \in DecoratedMethods
     /\ retry.fault \in ServerErrorFaults \cup NetworkFaults)
    => retry.invocations = GithubApiMaxAttempts

(***************************************************************************)
(* C28.  Under ErrorType.GITHUB_API an attempt of retry_with_backoff that  *)
(* fails with HTTP 401, 403, 404 or 422 ends the call at once (the error   *)
(* is raised, no sleep, no further invocation), and an attempt that fails  *)
(* with 429, 500, 502, 503, 504 or a network failure is followed by a      *)
(* sleep and another attempt while attempts are left.  The code breaks the *)
(* first part for the exceptions of requests and of PyGithub.              *)
(***************************************************************************)
C28_OnlyRetryableErrorsAreReattempted ==
    [][ (/\ retry.pc = "call"
         /\ retry.func = "remote_call"
         /\ retry.error_type = "github_api"
         /\ retry'.invocations = retry.invocations + 1
         /\ retry'.pc # "returned")
        => LET e == retry'.last_exception
           IN  /\ HttpStatus(e) \in {401, 403, 404, 422}
                     => retry'.pc = "raised" /\ retry'.attempt = retry.attempt
               /\ (/\ HttpStatus(e) \in RetryableStatusCodes \/ e \in NetworkErrors
                   /\ retry.attempt < GithubApiMaxAttempts - 1)
                     => retry'.pc = "sleep" ]_vars

(***************************************************************************)
(* C29.  retry_with_backoff always terminates.  It invokes the operation   *)
(* at most max_attempts times (5 for ErrorType.GITHUB_API, 3 for           *)
(* ErrorType.RATE_LIMIT), returns the result of the first invocation that  *)
(* succeeds and makes no further attempt, raises the last error when a     *)
(* retryable failure used up the attempts, and sleeps only between         *)
(* attempts, at most max_attempts - 1 times.                               *)
(***************************************************************************)
C29_RetryTerminates ==
    /\ [](/\ retry.invocations <= MaxAttempts(retry.error_type)
          /\ retry.error_type = "github_api" => retry.invocations <= 5
          /\ retry.error_type = "rate_limit" => retry.invocations <= 3
          /\ retry.sleeps <= MaxAttempts(retry.error_type) - 1
          /\ retry.pc \in {"returned", "raised"} => retry.sleeps = retry.invocations - 1
          /\ retry.pc = "sleep" => retry.sleeps = retry.invocations - 1
          /\ retry.pc = "call" => retry.sleeps = retry.invocations
          /\ retry.pc = "returned" => retry.result # NoneDict
          /\ retry.pc = "raised"
                => /\ retry.last_exception \in RemoteErrors
                   /\ is_retryable_error(retry.last_exception, retry.error_type)
                         => retry.invocations = MaxAttempts(retry.error_type))
    /\ [][retry.pc \in {"returned", "raised"} => retry' = retry]_vars
    /\ <>(retry.pc \in {"returned", "raised"})

\* the attempts were used up: five invocations, four sleeps, the last error raised
C29_Witness ==
    /\ retry.pc = "raised"
    /\ retry.error_type = "github_api"
    /\ retry.invocations = 5
    /\ retry.sleeps = 4
    /\ HttpStatus(retry.last_exception) = 503

(***************************************************************************)
(* C30.  For every limit >= 0, get_completed_workflows(limit) returns at   *)
(* most limit workflows, namely the limit most recently completed ones in  *)
(* completion order (all of them when fewer were completed), reports as    *)
(* count the number of all completed workflows, and changes neither        *)
(* collection.  The code breaks this for limit 0.                          *)
(***************************************************************************)
C30_ListReturnsLastLimit ==
    [][ (last_result'.call = "get_completed_workflows" /\ last_result' # last_result)
        => LET limit == last_result'.limit
               ret == last_result'.ret
               n == Len(completed_workflows)
               k == IF limit < n THEN limit ELSE n
           IN  /\ Len(ret.completed_workflows) <= limit
               /\ ret.completed_workflows = SubSeq(completed_workflows, n - k + 1, n)
               /\ ret.count = n
               /\ UNCHANGED <<active_workflows, completed_workflows>> ]_vars

(***************************************************************************)
(* GitOperations (utils/git_operations.py): the functions on branch names  *)
(* and commit messages, each applied to one input.                         *)
(***************************************************************************)
\* longest string of the alphabet that is given to the functions as it is
MaxNameLen == 3

\* counter value after which generate_unique_branch_name stops numbering
MaxCandidates == 1000

\* largest count of one change type in a changes summary
MaxChanges == 2

\* the characters the input strings are made of
NameAlphabet ==
    {"a", "A", "-", ".", "/", " ", "\t", SOH, "~", "@", "{", "?", EAcute}

\* the strings over NameAlphabet of length at most n
NamesUpTo(n) == UNION {[1..k -> NameAlphabet] : k \in 0..n}

\* n letters
Letters(n) == [i \in 1..n |-> "a"]

\* the input strings: the short ones, and short ones behind enough letters to
\* reach the truncation limit and the length limit
Names ==
    NamesUpTo(MaxNameLen)
      \cup {Letters(n) \o t : n \in {TruncLen - 1, MaxBranchLen - 1},
                              t \in NamesUpTo(MaxNameLen - 1)}

\* f"{sanitized_name}-{counter}"
Numbered(sanitized_name, counter) == sanitized_name \o <<"-">> \o Digits(counter)

\* the while loop of GitOperations.generate_unique_branch_name: the first
\* numbered candidate that is not in the list, the name with the timestamp
\* when the counter has passed MaxCandidates
NumberedCandidate(sanitized_name, existing_branches, timestamp) ==
    IF \A k \in 1..MaxCandidates : Numbered(sanitized_name, k) \in existing_branches
    THEN [name |-> sanitized_name \o <<"-">> \o timestamp, candidates |-> MaxCandidates]
    ELSE LET counter == CHOOSE k \in 1..MaxCandidates :
                          /\ Numbered(sanitized_name, k) \notin existing_branches
                          /\ \A j \in 1..(k - 1) :
                                Numbered(sanitized_name, j) \in existing_branches
         IN  [name |-> Numbered(sanitized_name, counter), candidates |-> counter]

\* GitOperations.generate_unique_branch_name with the branches of the list
\* existing_branches as a set: the returned name, and the number of numbered
\* candidates it compared with the list
generate_unique_branch_name(base_name, existing_branches, timestamp) ==
    LET sanitized_name == sanitize_branch_name(base_name)
    IN  IF existing_branches = {}
        THEN [name |-> generate_unique_branch_name_ts(base_name, timestamp),
              candidates |-> 0]
        ELSE IF sanitized_name \notin existing_branches
        THEN [name |-> sanitized_name, candidates |-> 0]
        ELSE NumberedCandidate(sanitized_name, existing_branches, timestamp)

\* the lists of existing branches a base name is tried with: none, one that
\* does not hold the sanitized name, and the sanitized name with its first n
\* numbered successors
Taken(sanitized_name, n) ==
    {sanitized_name} \cup {Numbered(sanitized_name, k) : k \in 1..n}

ExistingLists(base_name, timestamp) ==
    LET s == sanitize_branch_name(base_name)
    IN  {{}, {main}, Taken(s, 0), Taken(s, 1)}
          \cup (IF Len(base_name) <= 1
                THEN {Taken(s, MaxCandidates - 1), Taken(s, MaxCandidates),
                      Taken(s, MaxCandidates) \cup {s \o <<"-">> \o timestamp}}
                ELSE {})

\* the primary action of GitOperations.create_commit_message
PrimaryAction(change_types) ==
    IF Get(change_types, "create", 0) > 0 /\ Get(change_types, "modify", 0) = 0
    THEN "Add"
    ELSE IF Get(change_types, "delete", 0) > 0 /\ Get(change_types, "create", 0) = 0
    THEN "Remove"
    ELSE IF Get(change_types, "modify", 0) > 0
    THEN "Update"
    ELSE "Modify"

\* GitOperations.create_commit_message: the custom message, or the verb that
\* starts the subject line
create_commit_message(changes_summary, custom_message) ==
    IF Truthy(custom_message)
    THEN [custom |-> TRUE, message |-> custom_message]
    ELSE [custom |-> FALSE,
          action |-> PrimaryAction(Get(changes_summary, "change_types", [x \in {} |-> 0]))]

\* the change_types of a changes summary: a count for some of the types
ChangeTypeMaps ==
    UNION {[K -> 0..MaxChanges] : K \in SUBSET {"create", "modify", "delete"}}

CustomMessages == {NoneV, <<>>, <<"m">>}

\* what the calls of the functions of utils/ leave alone
UtilUnchanged ==
    UNCHANGED <<manager_vars, pr_workflow_vars, github_vars, thread_vars, commit_run,
                retry>>

\* the objects next to the function that is called
UtilIdle ==
    /\ commit_run = [pc |-> "idle"]
    /\ retry = [pc |-> "idle"]
    /\ active_workflows = [w \in {} |-> NoneDict]
    /\ completed_workflows = <<>>
    /\ next_id = 0
    /\ clock = 0
    /\ executed = [w \in WorkflowIds |-> <<>>]
    /\ last_result = [call |-> "init"]
    /\ pr_workflow = PRWorkflowNew
    /\ pr_workflow_call = "init"
    /\ github_call = [action |-> "init"]
    /\ github_calls = 0
    /\ ThreadsIdle

\* a GitOperations object and the argument of the next call
GitOperationsInit ==
    /\ \/ \E name \in Names : util_call = [pc |-> "input", name |-> name]
       \/ \E change_types \in ChangeTypeMaps, custom_message \in CustomMessages :
             util_call = [pc |-> "input",
                          changes_summary |-> [change_types |-> change_types],
                          custom_message |-> custom_message]
    /\ remote = [default_branch |-> main, branches |-> (main :> InitialTree), pulls |-> {}]
    /\ github_client = TRUE
    /\ UtilIdle

\* _sanitize_branch_name(name)
SanitizeBranchName ==
    /\ util_call.pc = "input"
    /\ "name" \in DOMAIN util_call
    /\ util_call' = [pc |-> "sanitized", name |-> util_call.name,
                     sanitized |-> sanitize_branch_name(util_call.name)]
    /\ UNCHANGED remote
    /\ UtilUnchanged

\* _sanitize_branch_name applied to its own result
SanitizeAgain ==
    /\ util_call.pc = "sanitized"
    /\ util_call' = [pc |-> "resanitized", name |-> util_call.name,
                     sanitized |-> util_call.sanitized,
                     again |-> sanitize_branch_name(util_call.sanitized)]
    /\ UNCHANGED remote
    /\ UtilUnchanged

\* validate_branch_name applied to the result of _sanitize_branch_name
ValidateSanitized ==
    /\ util_call.pc = "sanitized"
    /\ util_call' = [pc |-> "checked", name |-> util_call.name,
                     sanitized |-> util_call.sanitized,
                     is_valid |-> validate_branch_name(util_call.sanitized)]
    /\ UNCHANGED remote
    /\ UtilUnchanged

\* validate_branch_name(name)
ValidateBranchName ==
    /\ util_call.pc = "input"
    /\ "name" \in DOMAIN util_call
    /\ util_call' = [pc |-> "validated", name |-> util_call.name,
                     is_valid |-> validate_branch_name(util_call.name)]
    /\ UNCHANGED remote
    /\ UtilUnchanged

\* generate_unique_branch_name(name, repo_url, existing_branches)
GenerateUniqueBranchName ==
    /\ util_call.pc = "input"
    /\ "name" \in DOMAIN util_call
    /\ \E now \in {MaxCandidates + 1} :
       \E existing_branches \in ExistingLists(util_call.name, Timestamp(now)) :
          LET out == generate_unique_branch_name(util_call.name, existing_branches,
                                                 Timestamp(now))
          IN  util_call' = [pc |-> "generated", name |-> util_call.name,
                            existing_branches |-> existing_branches,
                            branch_name |-> out.name, candidates |-> out.candidates]
    /\ UNCHANGED remote
    /\ UtilUnchanged

\* create_commit_message(changes_summary, custom_message)
CreateCommitMessage ==
    /\ util_call.pc = "input"
    /\ "changes_summary" \in DOMAIN util_call
    /\ util_call' = [pc |-> "message", changes_summary |-> util_call.changes_summary,
                     custom_message |-> util_call.custom_message,
                     result |-> create_commit_message(util_call.changes_summary,
                                                      util_call.custom_message)]
    /\ UNCHANGED remote
    /\ UtilUnchanged

GitOperationsNext ==
    \/ SanitizeBranchName
    \/ SanitizeAgain
    \/ ValidateSanitized
    \/ ValidateBranchName
    \/ GenerateUniqueBranchName
    \/ CreateCommitMessage

GitOperationsSpec == GitOperationsInit /\ [][GitOperationsNext]_vars

(***************************************************************************)
(* C31.  For every input string, the result of _sanitize_branch_name is    *)
(* accepted by validate_branch_name.  The code breaks this for an input    *)
(* with a control character that is not whitespace, and for an input       *)
(* whose sanitized form is cut behind a slash.                             *)
(***************************************************************************)
C31_SanitizedNameIsValid ==
    util_call.pc = "checked" => util_call.is_valid

(***************************************************************************)
(* C32.  _sanitize_branch_name applied to its own result returns that      *)
(* result.  The code breaks this for an input whose sanitized form is cut  *)
(* behind a slash.                                                         *)
(***************************************************************************)
C32_SanitizeIsIdempotent ==
    util_call.pc = "resanitized" => util_call.again = util_call.sanitized

(***************************************************************************)
(* C33.  generate_unique_branch_name returns a name that is not in the     *)
(* list of existing branches and that validate_branch_name accepts, after  *)
(* at most 1000 numbered candidates.  The code returns names that are not  *)
(* accepted.                                                               *)
(***************************************************************************)
C33_UniqueNameIsNewAndValid ==
    util_call.pc = "generated"
      => /\ util_call.branch_name \notin util_call.existing_branches
         /\ validate_branch_name(util_call.branch_name)
         /\ util_call.candidates <= MaxCandidates

(***************************************************************************)
(* C34.  validate_branch_name rejects every name that is empty, longer     *)
(* than 250 characters, starts or ends with a dot, contains two dots in a  *)
(* row, contains whitespace or one of ~ ^ : ? * [ ] \, contains @{,        *)
(* starts or ends with a dash, ends with a slash, contains two slashes in  *)
(* a row or contains a control character, and accepts every other name.    *)
(* The code accepts names with ? and *.                                    *)
(***************************************************************************)
C34_ValidateFollowsTheRules ==
    util_call.pc = "validated"
      => LET name == util_call.name
             last == name[Len(name)]
             rejected ==
                \/ name = <<>>
                \/ Len(name) > 250
                \/ Head(name) = "." \/ last = "."
                \/ Contains2(name, ".", ".")
                \/ \E i \in 1..Len(name) :
                      name[i] \in Whitespace
                                    \cup {"~", "^", ":", "?", "*", "[", "]", "\\"}
                \/ Contains2(name, "@", "{")
                \/ Head(name) = "-" \/ last = "-"
                \/ last = "/"
                \/ Contains2(name, "/", "/")
                \/ \E i \in 1..Len(name) : name[i] \in ControlChars
         IN  util_call.is_valid = ~rejected

(***************************************************************************)
(* C35.  Without a custom message, create_commit_message chooses the verb  *)
(* Add exactly when the summary counts only creations, Remove exactly when *)
(* it counts only deletions, and Update in every other case.  The code     *)
(* chooses Add for creations with deletions, Remove for deletions with     *)
(* modifications and Modify for a summary without changes.                 *)
(***************************************************************************)
C35_VerbFollowsChangeTypes ==
    (util_call.pc = "message" /\ ~util_call.result.custom)
      => LET change_types == util_call.changes_summary.change_types
             create == Get(change_types, "create", 0)
             modify == Get(change_types, "modify", 0)
             delete == Get(change_types, "delete", 0)
         IN  util_call.result.action =
                IF create > 0 /\ modify = 0 /\ delete = 0 THEN "Add"
                ELSE IF delete > 0 /\ create = 0 /\ modify = 0 THEN "Remove"
                ELSE "Update"

(***************************************************************************)
(* ErrorHandler (utils/error_handler.py): the classification of one        *)
(* exception of a remote call.                                             *)
(***************************************************************************)
\* an ErrorHandler object and the exception that is handed to it
ErrorHandlerInit ==
    /\ \E error \in RemoteErrors : util_call = [pc |-> "input", error |-> error]
    /\ remote = [default_branch |-> main, branches |-> (main :> InitialTree), pulls |-> {}]
    /\ github_client = TRUE
    /\ UtilIdle

\* handle_github_api_errors(error, context)
HandleGithubApiErrors ==
    /\ util_call.pc = "input"
    /\ util_call' = [pc |-> "handled", error |-> util_call.error,
                     response |-> handle_github_api_errors(util_call.error)]
    /\ UNCHANGED remote
    /\ UtilUnchanged

\* _is_retryable_error(error, error_type)
IsRetryableError ==
    /\ util_call.pc = "input"
    /\ \E error_type \in ErrorTypes :
          util_call' = [pc |-> "classified", error |-> util_call.error,
                        error_type |-> error_type,
                        retryable |-> is_retryable_error(util_call.error, error_type)]
    /\ UNCHANGED remote
    /\ UtilUnchanged

ErrorHandlerNext ==
    \/ HandleGithubApiErrors
    \/ IsRetryableError

ErrorHandlerSpec == ErrorHandlerInit /\ [][ErrorHandlerNext]_vars

(***************************************************************************)
(* C39.  handle_github_api_errors gives the failure of a remote call a     *)
(* retry_possible flag that follows its HTTP status: false for 401, 403,   *)
(* 404 and 422, true for 429, 500, 502, 503 and 504.  The code leaves the  *)
(* flag true for 403, and for every status of a GithubException.           *)
(***************************************************************************)
C39_RetryFlagFollowsStatus ==
    (util_call.pc = "handled" /\ HttpStatus(util_call.error) # 0)
      => LET status == HttpStatus(util_call.error)
             flag == util_call.response.error.retry_possible
         IN  /\ status \in {401, 403, 404, 422} => ~flag
             /\ status \in {429, 500, 502, 503, 504} => flag

(***************************************************************************)
(* GitHubManager.generate_unique_branch_name (agents/github_manager.py):   *)
(* one call against a repository on the remote host.                       *)
(***************************************************************************)
\* the characters [a-zA-Z0-9\-_] after lower()
CleanChars ==
    {"a", "b", "c", "d", "e", "f", "g", "h", "i", "j", "k", "l", "m", "n", "o", "p",
     "q", "r", "s", "t", "u", "v", "w", "x", "y", "z", "0", "1", "2", "3", "4", "5",
     "6", "7", "8", "9", "-", "_"}

\* clean_base: every other character becomes a dash, runs of dashes become
\* one, dashes at the ends are dropped, 'feature' for an empty result
CleanBase(base_name) ==
    LET lowered == Lower(base_name)
        dashed == [i \in 1..Len(lowered) |->
                     IF lowered[i] \in CleanChars THEN lowered[i] ELSE "-"]
        clean_base == Strip(CollapseRuns(dashed, {"-"}, "-"), {"-"})
    IN  IF clean_base = <<>> THEN FeatureName ELSE clean_base

\* the candidate of the n-th lookup: clean_base, then clean_base-1, ...
Candidate(clean_base, n) ==
    IF n = 1 THEN clean_base ELSE Numbered(clean_base, n - 1)

\* the n-th repo_obj.get_branch(candidate) raises: the branch is not there,
\* or the lookup fails for another reason
LookupRaises(R, clean_base, n, failing_lookup) ==
    \/ n = failing_lookup
    \/ Candidate(clean_base, n) \notin DOMAIN R.branches

\* the lookups that can fail for a reason other than a missing branch
MaxFailingLookup == 2

UniqueNameFaults ==
    {[op |-> "none"], [op |-> "get_repo"]}
      \cup {[op |-> "get_branch", lookup |-> n] : n \in 1..MaxFailingLookup}

\* GitHubManager.generate_unique_branch_name; the fault is none, get_repo, or
\* the lookup that fails with an error other than not-found
GitHubManager_generate_unique_branch_name(R, client, base_name, fault) ==
    IF ~client
    THEN [status |-> "error", message |-> "requires GitHub token", lookups |-> 0]
    ELSE IF fault.op = "get_repo"
    THEN [status |-> "error", error |-> "Failed to generate unique branch name",
          lookups |-> 0]
    ELSE LET clean_base == CleanBase(base_name)
             failing == IF fault.op = "get_branch" THEN fault.lookup ELSE 0
         IN  IF \A n \in 1..MaxCandidates : ~LookupRaises(R, clean_base, n, failing)
             THEN [status |-> "error", error |-> "Could not generate unique branch name",
                   lookups |-> MaxCandidates]
             ELSE LET n == CHOOSE k \in 1..MaxCandidates :
                                /\ LookupRaises(R, clean_base, k, failing)
                                /\ \A j \in 1..(k - 1) :
                                      ~LookupRaises(R, clean_base, j, failing)
                      candidate == Candidate(clean_base, n)
                  IN  IF ~validate_branch_name(candidate)
                      THEN [status |-> "error",
                            error |-> "Generated branch name is invalid", lookups |-> n]
                      ELSE [status |-> "success", branch_name |-> candidate,
                            base_name |-> base_name, lookups |-> n]

\* the repositories a base name is tried on: the clean name is free, or it
\* and its first n numbered successors are taken
TakenCounts(base_name) ==
    {-1, 0, 1} \cup (IF Len(base_name) <= 1
                     THEN {MaxCandidates - 2, MaxCandidates - 1}
                     ELSE {})

RemoteWith(names) ==
    [default_branch |-> main,
     branches |-> [b \in {main} \cup names |-> InitialTree],
     pulls |-> {}]

\* a GitHubManager, with or without a token, and a repository
UniqueNameInit ==
    /\ \E base_name \in NamesUpTo(MaxNameLen - 1) :
          /\ util_call = [pc |-> "input", base_name |-> base_name]
          /\ \E n \in TakenCounts(base_name) :
                remote = RemoteWith(IF n < 0 THEN {} ELSE Taken(CleanBase(base_name), n))
    /\ github_client \in BOOLEAN
    /\ UtilIdle

\* generate_unique_branch_name(base_name, repo_url)
GenerateUniqueName ==
    /\ util_call.pc = "input"
    /\ \E fault \in UniqueNameFaults :
          util_call' = [pc |-> "returned", base_name |-> util_call.base_name,
                        fault |-> fault,
                        result |-> GitHubManager_generate_unique_branch_name(
                                      remote, github_client, util_call.base_name, fault)]
    /\ UNCHANGED remote
    /\ UtilUnchanged

UniqueNameNext == GenerateUniqueName

UniqueNameSpec == UniqueNameInit /\ [][UniqueNameNext]_vars

(***************************************************************************)
(* C38.  GitHubManager.generate_unique_branch_name returns the first of    *)
(* the candidates base, base-1, base-2, ... that is not a branch of the    *)
(* repository; it never returns with success a name that is a branch of    *)
(* the repository, also when a lookup fails with an error other than       *)
(* not-found; and it returns an error after 1000 lookups.  The code takes  *)
(* every failed lookup as 'not found'.                                     *)
(***************************************************************************)
C38_UniqueNameIsFreeOnRemote ==
    (util_call.pc = "returned" /\ github_client /\ util_call.fault.op # "get_repo")
      => LET result == util_call.result
             clean_base == CleanBase(util_call.base_name)
             free == {n \in 1..MaxCandidates :
                         Candidate(clean_base, n) \notin DOMAIN remote.branches}
         IN  /\ result.lookups <= MaxCandidates
             /\ result.status = "success"
                  => /\ result.branch_name \notin DOMAIN remote.branches
                     /\ result.lookups \in free
                     /\ \A n \in free : result.lookups <= n
                     /\ result.branch_name = Candidate(clean_base, result.lookups)
             /\ free = {} => result.status = "error"

(***************************************************************************)
(* C36.  The pull request of a workflow is opened against the base branch  *)
(* its branch was created from: the base given to create_pull_request is   *)
(* the branch whose head create_branch gave to the new ref.  The code      *)
(* creates the branch from main, or from the default branch of the         *)
(* repository, and opens the pull request against the base_branch option.  *)
(***************************************************************************)
C36_PullRequestBaseIsBranchBase ==
    \A w \in WorkflowIds :
       \A i, j \in DOMAIN executed[w] :
          (/\ executed[w][i].step = "create_branch"
           /\ executed[w][i].calls # <<>>
           /\ executed[w][j].step = "create_pull_request")
            => executed[w][j].result.base_branch = executed[w][i].calls[1].base

(***************************************************************************)
(* GitHubManager.create_branch, statement by statement, called by two      *)
(* threads on one repository.  The host creates a ref in one step and      *)
(* refuses (422) a ref that exists.                                        *)
(***************************************************************************)
\* the branch names and base branches of the two calls; master is not a
\* branch of the repository
RaceBranchNames == {feat, dev, bad}

RaceBases == {main, dev, master}

\* the local variables of a create_branch call
BranchFrame(branch_name, base_branch) ==
    [branch_name |-> branch_name, base_branch |-> base_branch, sha |-> EmptyFiles,
     saw_missing |-> FALSE, created |-> FALSE, result |-> NoneDict]

\* two threads enter create_branch
BranchRaceInit ==
    /\ pc = [t \in Threads |-> "enter"]
    /\ \E n1 \in RaceBranchNames, n2 \in RaceBranchNames, b1 \in RaceBases, b2 \in RaceBases :
          frame = ("t1" :> BranchFrame(n1, b1)) @@ ("t2" :> BranchFrame(n2, b2))
    /\ observed = [query |-> "none"]
    /\ github_client \in BOOLEAN
    /\ remote = [default_branch |-> main,
                 branches |-> (main :> InitialTree) @@ (dev :> DevTree), pulls |-> {}]
    /\ active_workflows = [w \in {} |-> NoneDict]
    /\ completed_workflows = <<>>
    /\ next_id = 0
    /\ clock = 0
    /\ executed = [w \in WorkflowIds |-> <<>>]
    /\ last_result = [call |-> "init"]
    /\ pr_workflow = PRWorkflowNew
    /\ pr_workflow_call = "init"
    /\ github_call = [action |-> "init"]
    /\ github_calls = 0
    /\ CallsIdle

\* what the statements of create_branch leave alone
BranchRaceUnchanged ==
    UNCHANGED <<active_workflows, completed_workflows, next_id, clock, github_client,
                executed, last_result, pr_workflow_vars, github_vars, observed, call_vars>>

\* the call of thread t returns result
BranchReturn(t, result) ==
    /\ pc' = [pc EXCEPT ![t] = "done"]
    /\ frame' = [frame EXCEPT ![t].result = result]

CreateRefFailed_success(error) == [status |-> "success"]

\* the except clause for a GithubException of create_git_ref
CreateRefFailed(error) == handle_github_api_errors(error)

\* the token test, the validation of the name, get_repo
BrEnter(t) ==
    /\ pc[t] = "enter"
    /\ IF ~github_client
       THEN BranchReturn(t, handle_authentication_errors(OtherException))
       ELSE IF ~validate_branch_name(frame[t].branch_name)
       THEN BranchReturn(t, [status |-> "error", error |-> "Invalid branch name"])
       ELSE \/ BranchReturn(t, handle_github_api_errors(GithubException(500)))
            \/ /\ pc' = [pc EXCEPT ![t] = "check"]
               /\ UNCHANGED frame
    /\ UNCHANGED remote
    /\ BranchRaceUnchanged

\* repo_obj.get_branch(branch_name): the branch exists, the lookup fails, or
\* the branch is not there (404)
BrCheck(t) ==
    /\ pc[t] = "check"
    /\ \/ BranchReturn(t, handle_github_api_errors(GithubException(500)))
       \/ IF BranchExists(remote, frame[t].branch_name)
          THEN BranchReturn(t, [status |-> "error", error |-> "Branch already exists"])
          ELSE /\ pc' = [pc EXCEPT ![t] = "base"]
               /\ frame' = [frame EXCEPT ![t].saw_missing = TRUE]
    /\ UNCHANGED remote
    /\ BranchRaceUnchanged

\* repo_obj.get_branch(base_branch), with the default branch when it is not
\* there
BrBase(t) ==
    /\ pc[t] = "base"
    /\ \/ BranchReturn(t, handle_github_api_errors(GithubException(500)))
       \/ LET base == IF frame[t].base_branch \in DOMAIN remote.branches
                      THEN frame[t].base_branch ELSE remote.default_branch
          IN  IF base \notin DOMAIN remote.branches
              THEN BranchReturn(t, handle_github_api_errors(GithubException(404)))
              ELSE /\ pc' = [pc EXCEPT ![t] = "create"]
                   /\ frame' = [frame EXCEPT ![t].base_branch = base,
                                             ![t].sha = remote.branches[base]]
    /\ UNCHANGED remote
    /\ BranchRaceUnchanged

\* repo_obj.create_git_ref(ref, sha) and the return of the success result
BrCreate(t) ==
    /\ pc[t] = "create"
    /\ IF frame[t].branch_name \in DOMAIN remote.branches
       THEN /\ BranchReturn(t, CreateRefFailed(GithubException(422)))
            /\ UNCHANGED remote
       ELSE \/ /\ BranchReturn(t, CreateRefFailed(GithubException(500)))
               /\ UNCHANGED remote
            \/ /\ remote' = [remote EXCEPT
                               !.branches = (frame[t].branch_name :> frame[t].sha) @@ @]
               /\ pc' = [pc EXCEPT ![t] = "done"]
               /\ frame' = [frame EXCEPT
                              ![t].created = TRUE,
                              ![t].result = [status |-> "success",
                                             branch_name |-> frame[t].branch_name,
                                             base_branch |-> frame[t].base_branch]]
    /\ BranchRaceUnchanged

BranchRaceNext ==
    \E t \in Threads :
       \/ BrEnter(t)
       \/ BrCheck(t)
       \/ BrBase(t)
       \/ BrCreate(t)

BranchRaceSpec == BranchRaceInit /\ [][BranchRaceNext]_vars

(***************************************************************************)
(* C37.  Of two concurrent create_branch calls with the same new branch    *)
(* name on one repository, at most one returns success, and the ref is     *)
(* created once: a call returns success exactly when its create_git_ref    *)
(* created the ref.                                                        *)
(***************************************************************************)
C37_OneCreatorPerBranch ==
    frame["t1"].branch_name = frame["t2"].branch_name
      => /\ Cardinality({t \in Threads : Get(frame[t].result, "status", "unknown") = "success"}) <= 1
         /\ Cardinality({t \in Threads : frame[t].created}) <= 1
         /\ \A t \in Threads :
               Get(frame[t].result, "status", "unknown") = "success" <=> frame[t].created

\* both calls saw that the branch was missing; one created it, the other was
\* refused by the host
C37_Witness ==
    /\ frame["t1"].branch_name = frame["t2"].branch_name
    /\ \A t \in Threads : pc[t] = "done" /\ frame[t].saw_missing
    /\ frame["t1"].created
    /\ Get(frame["t2"].result, "error", NoneDict) # NoneDict
    /\ Get(frame["t2"].result, "status", "unknown") = "unknown"
    /\ frame["t1"].branch_name \in DOMAIN remote.branches

====
